---------------------------- MODULE Spec2Model ----------------------------
(***************************************************************************)
(* A model of tesela's indexing core: Storage (src/core/storage.rs),       *)
(* Database (src/core/database.rs), Indexer (src/core/indexer.rs) and      *)
(* SearchEngine (src/core/search.rs).                                      *)
(*                                                                         *)
(* Text is modelled as sequences of one-character strings, so that the     *)
(* string functions of the code (file_stem, extension, starts_with, ...)   *)
(* are computed rather than assumed.  A markdown body is modelled by the   *)
(* sequence of blocks pulldown_cmark parses it into.                       *)
(***************************************************************************)
EXTENDS Integers, Sequences, FiniteSets, TLC

VARIABLES
    fs,              \* the notes directory: path -> <<>> (no file) or <<content>>
    db,              \* the SQLite database (committed state)
    file_checksums,  \* Indexer.file_checksums: path -> <<>> or <<checksum>>
    events,          \* IndexEvents sent on event_sender, oldest first
    last,            \* what the last operation was, its arguments and its outcome
    queue,           \* the mpsc channel from the OS watcher to the watcher thread
    debounce_map,    \* start_watching's debounce_map: path -> <<>> or <<timestamp>>
    now,             \* the clock (Utc::now), in ticks
    waited,          \* ticks the watcher thread has spent in the current recv_timeout
    burst,           \* per path, the run of create/modify events being debounced
    rebuild,         \* the call of Indexer::rebuild_index in progress, if any
    engine,          \* the SearchEngine: its config and its query_history
    reply,           \* what the last call of the SearchEngine returned
    tree,            \* the directories and files of the mosaic and around it
    channel,         \* the broadcast channel of event_sender and its receivers
    inflight,        \* per caller, the call of index_file it is in, if any
    app,             \* the App of the terminal interface
    steps            \* operations performed so far

vars == <<fs, db, file_checksums, events, last, queue, debounce_map, now, waited,
          burst, rebuild, engine, reply, tree, channel, inflight, app, steps>>

-----------------------------------------------------------------------------
(* Bounds of the model *)

\* calls made to the Database by its direct callers
MaxDbSteps == 4

\* file changes and index_file calls, when index_file is called directly
MaxIndexerSteps == 5

\* changes made to the files while the watcher runs
MaxFsChanges == 3

\* the ticks for which the watcher is observed
MaxTime == 4

\* changes made to the files around and during rebuild_index
MaxRebuildFsChanges == 2

\* calls of rebuild_index
MaxRebuilds == 1

-----------------------------------------------------------------------------
(* Strings *)

StartsWith(s, p) == Len(p) <= Len(s) /\ SubSeq(s, 1, Len(p)) = p

EndsWith(s, p) == Len(p) <= Len(s) /\ SubSeq(s, Len(s) - Len(p) + 1, Len(s)) = p

\* the last index of character c in s, 0 when there is none
LastIndexOf(s, c) ==
    LET at == {i \in 1..Len(s) : s[i] = c}
    IN  IF at = {} THEN 0 ELSE CHOOSE i \in at : \A j \in at : j <= i

\* Path::file_name: the last component
file_name(path) == SubSeq(path, LastIndexOf(path, "/") + 1, Len(path))

\* Path::file_stem: the file name up to its last '.', the whole name when it
\* has no '.' or only a leading one
file_stem(path) ==
    LET n == file_name(path)
        d == LastIndexOf(n, ".")
    IN  IF d <= 1 THEN n ELSE SubSeq(n, 1, d - 1)

\* Path::extension: <<>> for None, <<ext>> for Some(ext)
extension(path) ==
    LET n == file_name(path)
        d == LastIndexOf(n, ".")
    IN  IF d <= 1 THEN <<>> ELSE <<SubSeq(n, d + 1, Len(n))>>

RECURSIVE SeqToSet(_)
SeqToSet(s) == IF s = <<>> THEN {} ELSE {Head(s)} \cup SeqToSet(Tail(s))

-----------------------------------------------------------------------------
(* Storage: the data the model draws from *)

id_a == <<"a">>
id_b == <<"b">>

\* note files under the notes directory
pA == <<"n", "/", "a", ".", "m", "d">>
pB == <<"n", "/", "b", ".", "m", "d">>

Paths == {pA, pB}

\* files under the notes directory that are no notes: a temporary file and a
\* hidden markdown file
pTmp == <<"n", "/", "a", ".", "t", "m", "p">>
pHidden == <<"n", "/", ".", "c", ".", "m", "d">>

OtherPaths == {pTmp, pHidden}

AllPaths == Paths \cup OtherPaths

\* A file content is [fm, body]: fm is <<>> (no front matter) or
\* <<[title, tags]>>, title being <<>> or <<t>>; body is the markdown body as
\* the sequence of its blocks: a heading, a paragraph of text, or a paragraph
\* holding one link [text](dest "title").
Heading(t) == [kind |-> "heading", text |-> t, dest |-> <<>>, title |-> <<>>]
Para(t) == [kind |-> "para", text |-> t, dest |-> <<>>, title |-> <<>>]
LinkTo(t, d) == [kind |-> "link", text |-> t, dest |-> d, title |-> <<>>]

dest_b == <<"b">>
dest_b_md == <<"b", ".", "m", "d">>
dest_http == <<"h", "t", "t", "p", ":", "/", "/", "e">>
dest_file == <<"f", "i", "l", "e", ":", "i">>

\* "# T" and a paragraph
DocPlain == [fm |-> <<>>, body |-> <<Heading(<<"T">>), Para(<<"w">>)>>]
\* front matter with a title and two tags; a link [s](b)
DocTagged ==
    [fm |-> <<[title |-> <<<<"U">>>>, tags |-> <<"rust", "Rust">>]>>,
     body |-> <<Para(<<"v">>), LinkTo(<<"s">>, dest_b)>>]
\* front matter listing one tag twice
DocDupTag ==
    [fm |-> <<[title |-> <<>>, tags |-> <<"rust", "rust">>]>>,
     body |-> <<Para(<<"w">>)>>]
\* front matter with one tag; links [s](b.md), [s](http://e) and [s](file:i)
DocLinks ==
    [fm |-> <<[title |-> <<>>, tags |-> <<"rust">>]>>,
     body |-> <<LinkTo(<<"s">>, dest_b_md), LinkTo(<<"s">>, dest_http),
                LinkTo(<<"s">>, dest_file)>>]

ContentList == <<DocPlain, DocTagged, DocDupTag, DocLinks>>
Contents == SeqToSet(ContentList)

\* IndexerConfig::default().max_file_size: 10 * 1024 * 1024 bytes
max_file_size == 10485760

\* a note whose paragraph stands for more than max_file_size bytes of text
DocHuge == [fm |-> <<>>, body |-> <<Para(<<"h">>)>>]

\* every content a file of the model may have
\* a paragraph of three lines
DocLines == [fm |-> <<>>, body |-> <<Para(<<"u", "\n", "T", " ", "U", "\n", "u">>)>>]

AllContentList == ContentList \o <<DocHuge, DocLines>>

\* fs::Metadata::len of a file with this content
FileSize(content) == IF content = DocHuge THEN max_file_size + 1 ELSE 64

-----------------------------------------------------------------------------
(* Storage *)

\* SHA-256 of the bytes, in hex: a value that differs for different contents
\* (the position of the content in ContentList stands for the digest)
calculate_checksum(data) ==
    CHOOSE i \in 1..Len(AllContentList) : AllContentList[i] = data

\* NoteMetadata from the front matter; the default (no title, no tags) when
\* there is none
extract_metadata(data) ==
    IF data = <<>> THEN [title |-> <<>>, tags |-> <<>>]
    ELSE [title |-> data[1].title, tags |-> data[1].tags]

\* the text of the first heading: <<>> for None
extract_title_from_markdown(body) ==
    LET hs == {i \in 1..Len(body) : body[i].kind = "heading"}
    IN  IF hs = {} THEN <<>>
        ELSE <<body[CHOOSE i \in hs : \A j \in hs : i <= j].text>>

\* the number of parser events of a block: Start, Text, End for a heading or
\* a paragraph; Start(Paragraph), Start(Link), Text, End(Link), End(Paragraph)
\* for a paragraph holding a link
BlockEvents(b) == IF b.kind = "link" THEN 5 ELSE 3

\* the class of a link destination
LinkTypeOf(dest) ==
    IF StartsWith(dest, <<"h", "t", "t", "p", ":", "/", "/">>)
       \/ StartsWith(dest, <<"h", "t", "t", "p", "s", ":", "/", "/">>)
    THEN "external"
    ELSE IF StartsWith(dest, <<"a", "t", "t", "a", "c", "h", "m", "e", "n", "t", ":">>)
            \/ StartsWith(dest, <<"f", "i", "l", "e", ":">>)
    THEN "attachment"
    ELSE "internal"

\* Storage::extract_links: one Link per Start(Link) event, position being the
\* number of events before it, text being the link's title attribute
RECURSIVE ExtractLinksFrom(_, _)
ExtractLinksFrom(body, position) ==
    IF body = <<>> THEN <<>>
    ELSE LET b == Head(body)
             rest == ExtractLinksFrom(Tail(body), position + BlockEvents(b))
         IN  IF b.kind = "link"
             THEN <<[link_type |-> LinkTypeOf(b.dest), target |-> b.dest,
                     text |-> b.title, position |-> position + 1]>> \o rest
             ELSE rest

extract_links(body) == ExtractLinksFrom(body, 0)

\* Storage::extract_attachments: not implemented, always empty
extract_attachments(body) == <<>>

\* Storage::parse_note (file timestamps left out)
parse_note(path, content) ==
    LET metadata == extract_metadata(content.fm)
        fromHeading == extract_title_from_markdown(content.body)
        title == IF metadata.title # <<>> THEN metadata.title[1]
                 ELSE IF fromHeading # <<>> THEN fromHeading[1]
                 ELSE file_stem(path)
    IN  [id |-> file_stem(path),
         title |-> title,
         content |-> content,
         body |-> content.body,
         metadata |-> metadata,
         path |-> path,
         checksum |-> calculate_checksum(content),
         attachments |-> extract_attachments(content.body)]

\* Storage::load_note: <<>> when the file cannot be read, else <<note>>
load_note(files, path) ==
    IF files[path] = <<>> THEN <<>> ELSE <<parse_note(path, files[path][1])>>

-----------------------------------------------------------------------------
(* Database: the schema *)

(***************************************************************************)
(* db is a record of tables:                                               *)
(*   notes            rows [rowid, id, title, content, body, metadata,     *)
(*                    path, checksum]; id is the PRIMARY KEY               *)
(*   fts              the documents of the FTS5 index notes_fts, an        *)
(*                    external-content table (content='notes'): rows       *)
(*                    [rowid, title, body]; the column values of a         *)
(*                    document are read from notes by rowid                *)
(*   tags             tag names (UNIQUE); a tag's id stands for its name   *)
(*   note_tags        rows [note_id, tag], PRIMARY KEY (note_id, tag_id)   *)
(*   links            rows [source_note_id, target, link_type, text,       *)
(*                    position] in the order of their AUTOINCREMENT ids    *)
(*   attachments      attachment ids                                       *)
(*   note_attachments rows [note_id, attachment_id], PRIMARY KEY both      *)
(***************************************************************************)
EmptyDb ==
    [notes |-> {}, fts |-> {}, tags |-> {}, note_tags |-> {}, links |-> <<>>,
     attachments |-> {}, note_attachments |-> {}]

\* Foreign keys are enforced on every pooled connection: sqlx's
\* SqliteConnectOptions turn foreign_keys ON by default (the PRAGMA that
\* initialize() issues inside its transaction is a no-op in SQLite)
foreign_keys_off == FALSE

foreign_keys == TRUE

MaxOf(S) == IF S = {} THEN 0 ELSE CHOOSE x \in S : \A y \in S : y <= x

\* the rowid SQLite gives a new row of notes: one more than the largest
NewRowid(d) == MaxOf({r.rowid : r \in d.notes}) + 1

\* the rowid FTS5 gives a document inserted without one: one more than the
\* largest of its documents
NewFtsRowid(d) == MaxOf({doc.rowid : doc \in d.fts}) + 1

Cascade_junctions_only(d, id) ==
    [d EXCEPT
       !.note_tags = {nt \in @ : nt.note_id # id},
       !.note_attachments = {na \in @ : na.note_id # id}]

\* ON DELETE CASCADE of note_tags, links and note_attachments
Cascade(d, id) ==
    IF foreign_keys
    THEN [d EXCEPT
            !.note_tags = {nt \in @ : nt.note_id # id},
            !.links = SelectSeq(@, LAMBDA l : l.source_note_id # id),
            !.note_attachments = {na \in @ : na.note_id # id}]
    ELSE d

\* trigger notes_fts_insert: INSERT INTO notes_fts(id, title, body): a new
\* document, with a rowid of the index's own choosing
notes_fts_insert(d, new) ==
    [d EXCEPT !.fts = @ \cup {[rowid |-> NewFtsRowid(d), title |-> new.title,
                               body |-> new.body]}]

\* trigger notes_fts_delete, run after the row is gone: DELETE FROM notes_fts
\* WHERE id = old.id removes the documents whose row of notes has that id
notes_fts_delete(d, old) ==
    [d EXCEPT !.fts =
        {doc \in @ : ~(\E r \in d.notes : r.rowid = doc.rowid /\ r.id = old.id)}]

\* a row of notes from a Note
NoteRow(note, rowid) ==
    [rowid |-> rowid, id |-> note.id, title |-> note.title,
     content |-> note.content, body |-> note.body, metadata |-> note.metadata,
     path |-> note.path, checksum |-> note.checksum]

InsertNote_keeping(d, note) ==
    LET row == NoteRow(note, NewRowid(d))
    IN  notes_fts_insert([d EXCEPT !.notes = @ \cup {row}], row)

\* INSERT OR REPLACE INTO notes: a row with the same id is deleted first
\* (cascading, and without firing the delete trigger: recursive_triggers is
\* off), then the row is inserted and the insert trigger fires
InsertOrReplaceNote(d, note) ==
    LET row == NoteRow(note, NewRowid(d))
        gone == Cascade([d EXCEPT !.notes = {r \in @ : r.id # note.id}], note.id)
    IN  notes_fts_insert([gone EXCEPT !.notes = @ \cup {row}], row)

\* a statement's outcome: [ok, db]
Ok(d) == [ok |-> TRUE, db |-> d]
Failed(d) == [ok |-> FALSE, db |-> d]

\* Database::update_note_tags inside the caller's transaction: the note's
\* rows are deleted, then for each tag INSERT OR IGNORE INTO tags and INSERT
\* INTO note_tags, which fails on a (note_id, tag_id) already there
RECURSIVE InsertNoteTags(_, _, _)
InsertNoteTags(d, note_id, tags) ==
    IF tags = <<>> THEN Ok(d)
    ELSE LET row == [note_id |-> note_id, tag |-> Head(tags)]
             d1 == [d EXCEPT !.tags = @ \cup {Head(tags)}]
         IN  IF row \in d1.note_tags THEN Failed(d1)
             ELSE IF foreign_keys /\ ~(\E r \in d1.notes : r.id = note_id)
             THEN Failed(d1)
             ELSE InsertNoteTags([d1 EXCEPT !.note_tags = @ \cup {row}],
                                 note_id, Tail(tags))

update_note_tags(d, note_id, tags) ==
    InsertNoteTags([d EXCEPT !.note_tags = {nt \in @ : nt.note_id # note_id}],
                   note_id, tags)

\* Database::update_note_attachments, likewise
RECURSIVE InsertNoteAttachments(_, _, _)
InsertNoteAttachments(d, note_id, atts) ==
    IF atts = <<>> THEN Ok(d)
    ELSE LET row == [note_id |-> note_id, attachment_id |-> Head(atts)]
             d1 == [d EXCEPT !.attachments = @ \cup {Head(atts)}]
         IN  IF row \in d1.note_attachments THEN Failed(d1)
             ELSE IF foreign_keys /\ ~(\E r \in d1.notes : r.id = note_id)
             THEN Failed(d1)
             ELSE InsertNoteAttachments(
                      [d1 EXCEPT !.note_attachments = @ \cup {row}],
                      note_id, Tail(atts))

update_note_attachments(d, note_id, atts) ==
    InsertNoteAttachments(
        [d EXCEPT !.note_attachments = {na \in @ : na.note_id # note_id}],
        note_id, atts)

EndTransaction_no_rollback(before, outcome) == outcome

\* The end of a transaction: commit when every statement succeeded; else the
\* transaction is dropped uncommitted, which rolls it back to `before`
EndTransaction(before, outcome) ==
    IF outcome.ok THEN outcome ELSE Failed(before)

\* The steps of upsert_note's transaction.  io names the statement at which
\* the engine reports an error of its own (disk, lock): "none" for no error.
UpsertSteps(d, note, io) ==
    IF io = "note" THEN Failed(d)
    ELSE LET d1 == InsertOrReplaceNote(d, note)
             t == update_note_tags(d1, note.id, note.metadata.tags)
         IN  IF io = "tags" \/ ~t.ok THEN Failed(t.db)
             ELSE LET a == update_note_attachments(t.db, note.id, note.attachments)
                  IN  IF io = "attachments" \/ ~a.ok THEN Failed(a.db)
                      ELSE IF io = "commit" THEN Failed(a.db)
                      ELSE a

\* Database::upsert_note
upsert_note(d, note, io) == EndTransaction(d, UpsertSteps(d, note, io))

delete_note_strict(d, id) ==
    LET old == {r \in d.notes : r.id = id}
        gone == Cascade([d EXCEPT !.notes = @ \ old], id)
    IN  IF old = {} THEN Failed(d)
        ELSE Ok(notes_fts_delete(gone, CHOOSE r \in old : TRUE))

\* Database::delete_note: DELETE FROM notes WHERE id = ?
delete_note(d, id) ==
    LET old == {r \in d.notes : r.id = id}
        gone == Cascade([d EXCEPT !.notes = @ \ old], id)
    IN  IF old = {} THEN Ok(d)
        ELSE Ok(notes_fts_delete(gone, CHOOSE r \in old : TRUE))

\* the rows update_note_links inserts, in order; the insert fails when the
\* source note does not exist (FOREIGN KEY)
LinkRows(note_id, links) ==
    [i \in 1..Len(links) |->
        [source_note_id |-> note_id, target |-> links[i].target,
         link_type |-> links[i].link_type, text |-> links[i].text,
         position |-> links[i].position]]

LinkSteps_no_delete(d, note_id, links, io) ==
    IF io # 0 THEN Failed(d) ELSE Ok([d EXCEPT !.links = @ \o LinkRows(note_id, links)])

\* The steps of update_note_links' transaction: the delete, then one insert
\* per link.  io is 0 for no engine error, or the number of the statement
\* (1 the delete, k + 1 the k-th insert, Len + 2 the commit) that fails.
LinkSteps(d, note_id, links, io) ==
    LET deleted == [d EXCEPT !.links =
                        SelectSeq(@, LAMBDA l : l.source_note_id # note_id)]
        fkFails == foreign_keys /\ links # <<>>
                   /\ ~(\E r \in d.notes : r.id = note_id)
        done == io - 2
    IN  IF io = 1 THEN Failed(d)
        ELSE IF fkFails THEN Failed(deleted)
        ELSE IF io # 0
        THEN Failed([deleted EXCEPT !.links =
                        @ \o SubSeq(LinkRows(note_id, links), 1, done)])
        ELSE Ok([deleted EXCEPT !.links = @ \o LinkRows(note_id, links)])

\* Database::update_note_links
update_note_links(d, note_id, links, io) ==
    EndTransaction(d, LinkSteps(d, note_id, links, io))

\* Database::rebuild_index: INSERT INTO notes_fts(notes_fts) VALUES('rebuild')
\* recomputes the index from notes, one document per row, under its rowid
rebuild_fts(d) ==
    [d EXCEPT !.fts = {[rowid |-> r.rowid, title |-> r.title, body |-> r.body] :
                         r \in d.notes}]

-----------------------------------------------------------------------------
(* Database: the queries *)

\* Database::get_note: <<>> for None
get_note(d, id) ==
    LET rows == {r \in d.notes : r.id = id}
    IN  IF rows = {} THEN <<>> ELSE <<CHOOSE r \in rows : TRUE>>

FoldTag(t) == IF t = "Rust" THEN "rust" ELSE t

get_notes_by_tag_nocase(d, tag) ==
    {n \in d.notes :
        \E nt \in d.note_tags : nt.note_id = n.id /\ FoldTag(nt.tag) = FoldTag(tag)}

\* Database::get_notes_by_tag: the DISTINCT rows of notes joined to note_tags
\* and tags on the tag's name (their order, by modified_at, is left out)
get_notes_by_tag(d, tag) ==
    {n \in d.notes :
        \E nt \in d.note_tags : nt.note_id = n.id /\ nt.tag \in d.tags /\ nt.tag = tag}

\* Database::get_tags_with_counts: for each row of tags, the number of
\* note_tags rows of the tag
get_tags_with_counts(d) ==
    [t \in d.tags |-> Cardinality({nt \in d.note_tags : nt.tag = t})]

\* Database::get_backlinks: SELECT DISTINCT source_note_id of the links with
\* this target and link_type 'internal'
get_backlinks(d, note_id) ==
    {d.links[i].source_note_id :
        i \in {j \in 1..Len(d.links) :
                 d.links[j].target = note_id /\ d.links[j].link_type = "internal"}}

\* the unicode61 tokenizer: case is folded, and a token is a maximal run of
\* letters and digits
Fold(c) == IF c = "T" THEN "t" ELSE IF c = "U" THEN "u" ELSE c

IsSeparator(c) == c \in {".", "/", ":", " ", "-", "\n", "\t"}

Tokenize(s) ==
    {[k \in 1..(j - i + 1) |-> Fold(s[i + k - 1])] :
        <<i, j>> \in {ij \in (1..Len(s)) \X (1..Len(s)) :
            /\ ij[1] <= ij[2]
            /\ \A k \in ij[1]..ij[2] : ~IsSeparator(s[k])
            /\ (ij[1] = 1 \/ IsSeparator(s[ij[1] - 1]))
            /\ (ij[2] = Len(s) \/ IsSeparator(s[ij[2] + 1]))}}

\* the tokens of a markdown body: those of its text and link destinations
RECURSIVE BodyTokens(_)
BodyTokens(body) ==
    IF body = <<>> THEN {}
    ELSE Tokenize(Head(body).text) \cup Tokenize(Head(body).dest)
         \cup Tokenize(Head(body).title) \cup BodyTokens(Tail(body))

\* a document of the index matches a one-term query on its title or body
DocMatches(doc, query) ==
    \E t \in Tokenize(query) : t \in Tokenize(doc.title) \cup BodyTokens(doc.body)

\* the documents of the index that MATCH
Matching(d, query) == {doc \in d.fts : DocMatches(doc, query)}

\* a matching document whose rowid has no row in notes: FTS5 cannot read its
\* columns (SQLITE_CORRUPT_VTAB), and the query fails
MissingContent(d, query) ==
    {doc \in Matching(d, query) : ~(\E r \in d.notes : r.rowid = doc.rowid)}

\* Database::search_notes (limit and offset left out): notes n JOIN notes_fts
\* ON notes_fts.id = n.id WHERE notes_fts MATCH ?.  notes_fts.id of a
\* document is the id of the row of notes with the document's rowid.
\* [ok, rows]: a row <<rowid, n>> for each matching document and the note n
\* it joins
search_notes(d, query) ==
    IF MissingContent(d, query) # {} THEN [ok |-> FALSE, rows |-> {}]
    ELSE [ok |-> TRUE,
          rows |-> {hit \in {doc.rowid : doc \in Matching(d, query)} \X d.notes :
                       \E r \in d.notes : r.rowid = hit[1] /\ r.id = hit[2].id}]

-----------------------------------------------------------------------------
(* The state after construction *)

NoteIds == {file_stem(p) : p \in Paths}

\* last: the operation, its arguments (id, path, note, links), whether it
\* returned Ok, the Database calls it made that write (writes), whether
\* index_file found the checksum cached (hit), and the number of rows the
\* note had in links, note_tags and note_attachments before the call (pre),
\* whether the id was stored before the call (existed), and the kind of the
\* error a call of Storage or of a command returned (error)
NoLast ==
    [op |-> "init", id |-> <<>>, path |-> <<>>, ok |-> TRUE, note |-> <<>>,
     links |-> <<>>, writes |-> 0, hit |-> FALSE, pre |-> 0, io |-> "none",
     kind |-> "none", existed |-> FALSE, error |-> "none",
     pattern |-> <<>>]

\* burst[p]: the time the watcher thread handled the first create/modify event
\* of the run (first), the events of the run it has handled (n), and what the
\* sweeps have done for the path since: calls of index_file (passes), calls
\* that wrote to the Database (writes), NoteIndexed events (indexed), and of
\* the last call: the file it found (file), whether the file's checksum was
\* not the cached one (changed), and the engine error it met (io)
NoBurst ==
    [first |-> 0, n |-> 0, passes |-> 0, writes |-> 0, indexed |-> 0,
     file |-> <<>>, changed |-> FALSE, io |-> "none"]

\* rebuild: where the call of rebuild_index is (pc: "idle" before the first
\* call, "walking" in the loop over the directory entries, "done" or "failed"
\* after it returned Ok or Err), the entries the walk has still to visit
\* (todo), notes_processed, the calls made so far (calls), the position in
\* events of the call's RebuildStarted (started), the entries of the walk
\* (entries), the file changes made before the call (at_steps), and what the
\* walk did with each path (results: "none" not visited, "skipped" by
\* should_index_file, "ok" or "err" as index_file returned)
NoRebuild ==
    [pc |-> "idle", todo |-> <<>>, notes_processed |-> 0, calls |-> 0,
     started |-> 0, entries |-> {}, at_steps |-> 0,
     results |-> [p \in AllPaths |-> "none"]]

\* SearchConfig::default: max_results, title_boost, enable_suggestions and
\* max_suggestions (recency_boost is with the scores, below)
max_results == 50

title_boost == 2

max_suggestions == 5

DefaultSearchConfig ==
    [max_results |-> max_results, title_boost |-> title_boost,
     enable_suggestions |-> TRUE, max_suggestions |-> max_suggestions]

\* SearchEngine::new
NewSearchEngine(config) == [config |-> config, query_history |-> <<>>]

\* reply: the call of the SearchEngine, when the last operation was one (op:
\* "search", "get_suggestions" or "merge_and_rank_results"), its argument (query),
\* whether it returned Ok, the kind of the error when it did not (error),
\* the Vec it returned (results or suggestions), the queries it made of the
\* Database (db_queries), and for a search the results it handed to
\* merge_and_rank_results (unmerged)
NoReply ==
    [op |-> "none", query |-> <<>>, ok |-> TRUE, error |-> "none",
     results |-> <<>>, suggestions |-> <<>>, db_queries |-> 0,
     unmerged |-> <<>>]

\* tree: path -> entry, for the paths that exist: a directory or a file with
\* its content and its length in bytes; no path exists at the start
NoTree == <<>>

\* channel: the events sent that the channel took (tail), and of each
\* Receiver, oldest first: the position of the event it receives next (next),
\* the position tail had when it subscribed (subscribed), the positions of the
\* events it has received (received) and the events it was told it missed
\* (lagged); Indexer::new drops the Receiver that comes with the channel
NoChannel == [tail |-> 0, rx |-> <<>>]

\* the callers of index_file that run at the same time: the watcher thread
\* (its sweep) and the task that called rebuild_index
Callers == {"watcher", "rebuild"}

\* inflight[c]: where the caller is in index_file (pc: "idle" outside it,
\* "loaded" after load_note and the checksum test, "upserted" after
\* upsert_note, "linked" after update_note_links), the path, and the note
\* it loaded
NoCalls == [c \in Callers |-> [pc |-> "idle", path |-> <<>>, note |-> <<>>]]

\* App::new, and every mode with the fields it holds (the fields of the
\* modes the App is not in are kept at their initial values):
\*   Input    input, cursor_position, input_type, suggestions,
\*            suggestion_index (<<>> for None, <<i>> for Some(i))
\*   Listing  items, selected
\*   Search   query, cursor_position, results, selected_result
\* panicked is set when a call made by a handler panics
NewApp ==
    [mode |-> "MainMenu", should_quit |-> FALSE, panicked |-> FALSE,
     input |-> <<>>, query |-> <<>>, cursor_position |-> 0,
     input_type |-> "none", suggestions |-> <<>>, suggestion_index |-> <<>>,
     items |-> <<>>, selected |-> 0, results |-> <<>>, selected_result |-> 0]

\* Database::new on a fresh file, Indexer::new, SearchEngine::new with the
\* default config, an empty notes directory
Init ==
    /\ fs = [p \in AllPaths |-> <<>>]
    /\ db = EmptyDb
    /\ file_checksums = [p \in AllPaths |-> <<>>]
    /\ events = <<>>
    /\ last = NoLast
    /\ queue = <<>>
    /\ debounce_map = [p \in AllPaths |-> <<>>]
    /\ now = 0
    /\ waited = 0
    /\ burst = [p \in AllPaths |-> NoBurst]
    /\ rebuild = NoRebuild
    /\ engine = NewSearchEngine(DefaultSearchConfig)
    /\ reply = NoReply
    /\ tree = NoTree
    /\ channel = NoChannel
    /\ inflight = NoCalls
    /\ app = NewApp
    /\ steps = 0

\* the rows of links, note_tags and note_attachments that belong to a note
ChildRows(d, id) ==
    Len(SelectSeq(d.links, LAMBDA l : l.source_note_id = id))
    + Cardinality({nt \in d.note_tags : nt.note_id = id})
    + Cardinality({na \in d.note_attachments : na.note_id = id})

-----------------------------------------------------------------------------
(* The Database called directly (by the command-line layer) *)

\* the Notes the callers pass: what parse_note yields, with attachments
AttachmentInputs == {<<>>, <<"f">>, <<"f", "f">>}

NoteInputs ==
    {parse_note(p, c) : p \in Paths, c \in Contents}
    \cup {[parse_note(p, DocPlain) EXCEPT !.attachments = atts] :
            p \in Paths, atts \in AttachmentInputs}

\* the link lists the callers pass
Lk(type, target, position) ==
    [link_type |-> type, target |-> target, text |-> <<>>, position |-> position]

LinkInputs ==
    {<<>>,
     <<Lk("internal", id_b, 0)>>,
     <<Lk("internal", id_b, 0), Lk("internal", id_b, 0)>>,
     <<Lk("external", id_b, 0), Lk("internal", id_a, 1)>>}

UpsertIo == {"none", "note", "tags", "attachments", "commit"}

DbUpsert ==
    \E note \in NoteInputs, io \in UpsertIo :
        /\ steps < MaxDbSteps
        /\ LET r == upsert_note(db, note, io)
           IN  /\ db' = r.db
               /\ last' = [NoLast EXCEPT !.op = "upsert_note", !.id = note.id,
                                         !.ok = r.ok, !.note = <<note>>,
                                         !.writes = 1,
                                         !.pre = ChildRows(db, note.id),
                                         !.existed = get_note(db, note.id) # <<>>]
        /\ steps' = steps + 1
        /\ UNCHANGED <<app, inflight, channel, tree, engine, reply, rebuild, fs, file_checksums, events, queue, debounce_map, now, waited, burst>>

DbDelete ==
    \E id \in NoteIds :
        /\ steps < MaxDbSteps
        /\ LET r == delete_note(db, id)
           IN  /\ db' = r.db
               /\ last' = [NoLast EXCEPT !.op = "delete_note", !.id = id,
                                         !.ok = r.ok, !.writes = 1,
                                         !.pre = ChildRows(db, id),
                                         !.existed = get_note(db, id) # <<>>]
        /\ steps' = steps + 1
        /\ UNCHANGED <<app, inflight, channel, tree, engine, reply, rebuild, fs, file_checksums, events, queue, debounce_map, now, waited, burst>>

DbUpdateLinks ==
    \E id \in NoteIds, links \in LinkInputs :
        \E io \in 0..(Len(links) + 2) :
            /\ steps < MaxDbSteps
            /\ LET r == update_note_links(db, id, links, io)
               IN  /\ db' = r.db
                   /\ last' = [NoLast EXCEPT !.op = "update_note_links", !.id = id,
                                             !.ok = r.ok, !.links = links,
                                             !.writes = 1,
                                             !.pre = ChildRows(db, id)]
            /\ steps' = steps + 1
            /\ UNCHANGED <<app, inflight, channel, tree, engine, reply, rebuild, fs, file_checksums, events, queue, debounce_map, now, waited, burst>>

DbRebuild ==
    /\ steps < MaxDbSteps
    /\ db' = rebuild_fts(db)
    /\ last' = [NoLast EXCEPT !.op = "rebuild_index", !.writes = 1]
    /\ steps' = steps + 1
    /\ UNCHANGED <<app, inflight, channel, tree, engine, reply, rebuild, fs, file_checksums, events, queue, debounce_map, now, waited, burst>>

NextDb == DbUpsert \/ DbDelete \/ DbUpdateLinks \/ DbRebuild

SpecDb == Init /\ [][NextDb]_vars

\* the same callers when none of them calls rebuild_index
NextDbTriggers == DbUpsert \/ DbDelete \/ DbUpdateLinks

SpecDbTriggers == Init /\ [][NextDbTriggers]_vars

-----------------------------------------------------------------------------
(* Claims about the Database *)

LinksOf(d, id) == SelectSeq(d.links, LAMBDA l : l.source_note_id = id)

\* C5: after delete_note(id) no link row with source id remains (so id is in
\* no get_backlinks result), and no note_tags or note_attachments row of id
\* remains, whatever upsert_note and update_note_links calls came before.
C5_CascadingDelete ==
    last.op = "delete_note" =>
        /\ LinksOf(db, last.id) = <<>>
        /\ \A t \in NoteIds : last.id \notin get_backlinks(db, t)
        /\ \A nt \in db.note_tags : nt.note_id # last.id
        /\ \A na \in db.note_attachments : na.note_id # last.id

\* a delete_note of a note that had links, tags or attachments
C5_Witness == last.op = "delete_note" /\ last.pre >= 3

\* C6: upsert_note is all-or-nothing: when it returns an error the whole
\* Database (note row, tag and attachment associations) is as before the
\* call; a note listing a tag or an attachment twice is such an error; and
\* when it returns Ok the note row is stored.
C6_UpsertAtomic ==
    [][last'.op = "upsert_note" =>
          LET note == last'.note[1]
          IN  /\ ~last'.ok => db' = db
              /\ last'.ok => get_note(db', note.id) # <<>>
              /\ Len(note.metadata.tags) # Cardinality(SeqToSet(note.metadata.tags))
                     => ~last'.ok
              /\ Len(note.attachments) # Cardinality(SeqToSet(note.attachments))
                     => ~last'.ok]_vars

\* an upsert_note that failed on a duplicate tag while an older version of
\* the note, with its tags, was stored
C6_Witness ==
    /\ last.op = "upsert_note" /\ ~last.ok
    /\ last.note[1].metadata.tags = <<"rust", "rust">>
    /\ get_note(db, last.id) # <<>>
    /\ last.pre >= 2

\* C7: after a successful update_note_links(note_id, links) the link rows of
\* note_id are exactly the given links, in order, and no other row changed;
\* after a failed one the Database is as before.  No other state is
\* committed.
C7_LinksReplaced ==
    [][last'.op = "update_note_links" =>
          IF last'.ok
          THEN /\ LinksOf(db', last'.id) = LinkRows(last'.id, last'.links)
               /\ \A id \in NoteIds \ {last'.id} : LinksOf(db', id) = LinksOf(db, id)
               /\ [db' EXCEPT !.links = <<>>] = [db EXCEPT !.links = <<>>]
          ELSE db' = db]_vars

\* a successful update_note_links that replaced earlier links by new ones
C7_Witness ==
    /\ last.op = "update_note_links" /\ last.ok
    /\ last.pre >= 1 /\ Len(last.links) = 2
    /\ Len(LinksOf(db, last.id)) = 2

TagNames == {"rust", "Rust", "go"}

\* the stored notes whose metadata tags contain t
NotesTagged(d, t) == {n \in d.notes : t \in SeqToSet(n.metadata.tags)}

\* C8: get_notes_by_tag(t) is exactly the set of stored notes whose metadata
\* tags contain t (case-sensitive), each once, and get_tags_with_counts()
\* gives t that set's size (t is absent from the map only when no note ever
\* carried it).
C8_TagIntegrity ==
    \A t \in TagNames :
        LET got == get_notes_by_tag(db, t)
            counts == get_tags_with_counts(db)
        IN  /\ got = NotesTagged(db, t)
            /\ Cardinality({n.id : n \in got}) = Cardinality(got)
            /\ t \in DOMAIN counts => counts[t] = Cardinality(NotesTagged(db, t))
            /\ NotesTagged(db, t) # {} => t \in DOMAIN counts

\* two notes carried the tag and one of them was deleted
C8_Witness ==
    /\ last.op = "delete_note" /\ last.pre >= 2
    /\ "Rust" \in db.tags
    /\ Cardinality(get_notes_by_tag(db, "Rust")) = 1
    /\ get_tags_with_counts(db)["Rust"] = 1

\* the full-text index holds exactly one document per row of notes, with the
\* row's title and body
FtsInSync ==
    db.fts = {[rowid |-> r.rowid, title |-> r.title, body |-> r.body] : r \in db.notes}

Queries == {<<"t">>, <<"u">>, <<"w">>, <<"v">>, <<"a">>, <<"b">>}

\* search_notes succeeds, returns only stored notes, each on a title or body
\* it has now, and none twice
SearchSound ==
    \A q \in Queries :
        LET r == search_notes(db, q)
        IN  /\ r.ok
            /\ \A hit \in r.rows :
                   /\ hit[2] \in db.notes
                   /\ DocMatches([title |-> hit[2].title, body |-> hit[2].body], q)
            /\ Cardinality({hit[2].id : hit \in r.rows}) = Cardinality(r.rows)

\* C9 (as claimed): with no call to rebuild_index, after any upsert_note and
\* delete_note calls the full-text index holds exactly one entry per row of
\* notes with its current title and body, so search_notes never returns a
\* deleted note, never matches a note on a title or body it no longer has,
\* and never returns a note twice.
C9_FtsSynchronized == FtsInSync /\ SearchSound

-----------------------------------------------------------------------------
(* Indexer: the configuration and the file filter *)

\* IndexerConfig::default().debounce_interval (500 ms), in ticks of 250 ms
debounce_interval == 2

\* the first index at which p occurs in s, 0 when it does not occur
Find(s, p) ==
    LET at == {i \in 1..(Len(s) - Len(p) + 1) : SubSeq(s, i, i + Len(p) - 1) = p}
    IN  IF at = {} THEN 0 ELSE CHOOSE i \in at : \A j \in at : i <= j

Contains(s, p) == Find(s, p) # 0

\* str::split: the parts of s between the occurrences of p
RECURSIVE Split(_, _)
Split(s, p) ==
    LET i == Find(s, p)
    IN  IF i = 0 THEN <<s>>
        ELSE <<SubSeq(s, 1, i - 1)>> \o Split(SubSeq(s, i + Len(p), Len(s)), p)

\* glob_match
glob_match(pattern, text) ==
    LET deep == Split(pattern, <<"*", "*">>)
        parts == Split(pattern, <<"*">>)
    IN  IF Contains(pattern, <<"*", "*">>) /\ Len(deep) = 2
        THEN LET prefix == deep[1]
                 suffix == deep[2]
                 suffix_to_match ==
                     IF StartsWith(suffix, <<"/">>) THEN Tail(suffix) ELSE suffix
             IN  IF StartsWith(text, prefix)
                 THEN IF StartsWith(suffix_to_match, <<"*">>)
                      THEN EndsWith(text, Tail(suffix_to_match))
                      ELSE EndsWith(text, suffix_to_match)
                 ELSE FALSE
        ELSE IF Contains(pattern, <<"*">>) /\ Len(parts) = 2
        THEN StartsWith(text, parts[1]) /\ EndsWith(text, parts[2])
        ELSE pattern = text

\* IndexerConfig::default().exclude_patterns
exclude_patterns ==
    <<<<"*", ".", "t", "m", "p">>,
      <<"*", ".", "b", "a", "k">>,
      <<".", "g", "i", "t", "/", "*", "*">>,
      <<"*", "*", "/", ".", "D", "S", "_", "S", "t", "o", "r", "e">>>>

\* IndexerConfig::default().index_hidden
index_hidden == FALSE

\* Indexer::should_index_file_with_config on the directory `files`: is_file
\* holds of a path that has a file now
should_index_file_with_config(files, path) ==
    /\ files[path] # <<>>
    /\ extension(path) \in {<<<<"m", "d">>>>,
                            <<<<"m", "a", "r", "k", "d", "o", "w", "n">>>>}
    /\ (index_hidden \/ ~StartsWith(file_name(path), <<".">>))
    /\ FileSize(files[path][1]) <= max_file_size
    /\ \A i \in 1..Len(exclude_patterns) : ~glob_match(exclude_patterns[i], path)

-----------------------------------------------------------------------------
(* Indexer: index_file and remove_from_index *)

NoteIndexed(path, note_id) ==
    [kind |-> "NoteIndexed", path |-> path, note_id |-> note_id]

NoteRemoved(path, note_id) ==
    [kind |-> "NoteRemoved", path |-> path, note_id |-> note_id]

\* the Database call of index_file at which the engine reports an error
IndexIo == {"none", "upsert_note", "update_note_links"}

\* what a call leaves behind: [ok, db, file_checksums, sent, writes, hit];
\* sent is the events it sends, writes the Database calls it makes
Outcome(ok, d, checksums, sent, writes, hit) ==
    [ok |-> ok, db |-> d, file_checksums |-> checksums, sent |-> sent,
     writes |-> writes, hit |-> hit]

\* the checksum gate of index_file
needs_update_always(checksums, path, current_checksum) == TRUE

needs_update_never(checksums, path, current_checksum) == FALSE

needs_update(checksums, path, current_checksum) ==
    checksums[path] = <<>> \/ checksums[path][1] # current_checksum

index_file_event_first(files, d, checksums, path, io) ==
    LET loaded == load_note(files, path)
    IN  IF loaded = <<>> THEN Outcome(FALSE, d, checksums, <<>>, 0, FALSE)
        ELSE
        LET note == loaded[1]
        IN  IF ~needs_update(checksums, path, note.checksum)
            THEN Outcome(TRUE, d, checksums, <<>>, 0, TRUE)
            ELSE
            LET links == extract_links(note.body)
                up == upsert_note(d, note,
                                  IF io = "upsert_note" THEN "commit" ELSE "none")
                lk == update_note_links(up.db, note.id, links,
                                        IF io = "update_note_links" THEN 1 ELSE 0)
            IN  IF ~up.ok THEN Outcome(FALSE, up.db, checksums, <<>>, 1, FALSE)
                ELSE IF ~lk.ok
                THEN Outcome(FALSE, lk.db, checksums,
                             <<NoteIndexed(path, note.id)>>, 2, FALSE)
                ELSE Outcome(TRUE, lk.db,
                             [checksums EXCEPT ![path] = <<note.checksum>>],
                             <<NoteIndexed(path, note.id)>>, 2, FALSE)

\* Indexer::index_file
index_file(files, d, checksums, path, io) ==
    LET loaded == load_note(files, path)
    IN  IF loaded = <<>> THEN Outcome(FALSE, d, checksums, <<>>, 0, FALSE)
        ELSE
        LET note == loaded[1]
        IN  IF ~needs_update(checksums, path, note.checksum)
            THEN Outcome(TRUE, d, checksums, <<>>, 0, TRUE)
            ELSE
            LET links == extract_links(note.body)
                up == upsert_note(d, note,
                                  IF io = "upsert_note" THEN "commit" ELSE "none")
                lk == update_note_links(up.db, note.id, links,
                                        IF io = "update_note_links" THEN 1 ELSE 0)
            IN  IF ~up.ok THEN Outcome(FALSE, up.db, checksums, <<>>, 1, FALSE)
                ELSE IF ~lk.ok THEN Outcome(FALSE, lk.db, checksums, <<>>, 2, FALSE)
                ELSE Outcome(TRUE, lk.db,
                             [checksums EXCEPT ![path] = <<note.checksum>>],
                             <<NoteIndexed(path, note.id)>>, 2, FALSE)

\* Indexer::remove_from_index (file_stem is Some for every path of the model)
remove_from_index(d, checksums, path) ==
    LET note_id == file_stem(path)
    IN  Outcome(TRUE, delete_note(d, note_id).db,
                [checksums EXCEPT ![path] = <<>>],
                <<NoteRemoved(path, note_id)>>, 1, FALSE)

-----------------------------------------------------------------------------
(* index_file called on the files of the notes directory (as rebuild_index  *)
(* and the watcher's sweep call it), between changes to the files           *)

\* a file is created or overwritten
FsWrite ==
    \E p \in Paths, c \in Contents :
        /\ steps < MaxIndexerSteps
        /\ fs' = [fs EXCEPT ![p] = <<c>>]
        /\ last' = [NoLast EXCEPT !.op = "write", !.path = p]
        /\ steps' = steps + 1
        /\ UNCHANGED <<app, inflight, channel, tree, engine, reply, rebuild, db, file_checksums, events, queue, debounce_map, now, waited,
                       burst>>

\* a file is deleted
FsRemove ==
    \E p \in Paths :
        /\ steps < MaxIndexerSteps
        /\ fs[p] # <<>>
        /\ fs' = [fs EXCEPT ![p] = <<>>]
        /\ last' = [NoLast EXCEPT !.op = "remove", !.path = p]
        /\ steps' = steps + 1
        /\ UNCHANGED <<app, inflight, channel, tree, engine, reply, rebuild, db, file_checksums, events, queue, debounce_map, now, waited,
                       burst>>

IndexFile ==
    \E p \in Paths, io \in IndexIo :
        /\ steps < MaxIndexerSteps
        /\ LET r == index_file(fs, db, file_checksums, p, io)
           IN  /\ db' = r.db
               /\ file_checksums' = r.file_checksums
               /\ events' = events \o r.sent
               /\ last' = [NoLast EXCEPT !.op = "index_file", !.path = p,
                                         !.id = file_stem(p), !.ok = r.ok,
                                         !.writes = r.writes, !.hit = r.hit,
                                         !.io = io]
        /\ steps' = steps + 1
        /\ UNCHANGED <<app, inflight, channel, tree, engine, reply, rebuild, fs, queue, debounce_map, now, waited, burst>>

NextIndexer == FsWrite \/ FsRemove \/ IndexFile

SpecIndexer == Init /\ [][NextIndexer]_vars

-----------------------------------------------------------------------------
(* Claims about index_file *)

\* the step is a call of index_file on a path that has a file
IndexFileCalled == last'.op = "index_file" /\ fs[last'.path] # <<>>

\* the checksum of the file's content is the one cached for the path
Cached(p) ==
    /\ file_checksums[p] # <<>>
    /\ file_checksums[p][1] = calculate_checksum(fs[p][1])

\* the front matter of the content lists no tag twice
TagsDistinct(content) ==
    LET tags == extract_metadata(content.fm).tags
    IN  \A i, j \in 1..Len(tags) : tags[i] = tags[j] => i = j

DistinctTags(p) == TagsDistinct(fs[p][1])

\* C1: index_file on a file whose checksum is cached for its path makes no
\* Database call, leaves the Database and the checksum cache as they were,
\* sends no event and returns Ok.
C1_IndexFileIdempotent ==
    [][IndexFileCalled /\ Cached(last'.path) =>
          /\ last'.writes = 0
          /\ last'.ok
          /\ db' = db
          /\ file_checksums' = file_checksums
          /\ events' = events]_vars

\* a second index_file on an indexed, unchanged file has returned
C1_Witness ==
    /\ last.op = "index_file"
    /\ last.hit
    /\ get_note(db, last.id) # <<>>
    /\ \E i \in 1..Len(events) : events[i] = NoteIndexed(last.path, last.id)

Designates(dest, id) ==
    \/ dest = id
    \/ file_stem(dest) = id /\ extension(dest) = <<<<"m", "d">>>>

\* the path's file is indexed: the note stored for it carries the checksum
\* cached for the path
Indexed(p) ==
    /\ file_checksums[p] # <<>>
    /\ get_note(db, file_stem(p)) # <<>>
    /\ get_note(db, file_stem(p))[1].checksum = file_checksums[p][1]

\* C10 as stated: once a note whose body holds an internal markdown link to
\* note b is indexed, get_backlinks("b") holds the note's id.
C10_BacklinksOfIndexedNotes ==
    \A p \in Paths :
        Indexed(p) =>
            LET n == get_note(db, file_stem(p))[1]
            IN  \A i \in 1..Len(n.body) :
                    (/\ n.body[i].kind = "link"
                     /\ LinkTypeOf(n.body[i].dest) = "internal"
                     /\ Designates(n.body[i].dest, id_b))
                        => n.id \in get_backlinks(db, id_b)

-----------------------------------------------------------------------------
(* Indexer: the watcher thread of start_watching *)

\* an Event of the OS watcher, with one path
FsEvent(kind, path) == [kind |-> kind, path |-> path]

\* Indexer::handle_fs_event at time t: [db, file_checksums, debounce_map,
\* sent, writes]
handle_fs_event(event, files, d, checksums, dmap, t) ==
    LET accepted == should_index_file_with_config(files, event.path)
        removed == remove_from_index(d, checksums, event.path)
    IN  IF event.kind \in {"Create", "Modify"} /\ accepted
        THEN [db |-> d, file_checksums |-> checksums,
              debounce_map |-> [dmap EXCEPT ![event.path] = <<t>>],
              sent |-> <<>>, writes |-> 0]
        ELSE IF event.kind = "Remove" /\ accepted
        THEN [db |-> removed.db, file_checksums |-> removed.file_checksums,
              debounce_map |-> dmap, sent |-> removed.sent,
              writes |-> removed.writes]
        ELSE [db |-> d, file_checksums |-> checksums, debounce_map |-> dmap,
              sent |-> <<>>, writes |-> 0]

Expired_inclusive(timestamp, t) == t - timestamp >= debounce_interval

\* the test of the sweep: the entry is older than the debounce interval
Expired(timestamp, t) == t - timestamp > debounce_interval

\* the entries the sweep takes out of the debounce map
to_process(dmap, t) ==
    {p \in DOMAIN dmap : dmap[p] # <<>> /\ Expired(dmap[p][1], t)}

\* the orders in which a HashMap may yield the paths
Orders(S) ==
    {s \in [1..Cardinality(S) -> S] :
        \A i, j \in 1..Cardinality(S) : s[i] = s[j] => i = j}

\* F of the value v, v being computed once
With(v, F(_)) == CHOOSE r \in {F(b) : b \in {v}} : TRUE

\* the sweep's loop over to_process: index_file on each path in turn.
\* [db, file_checksums, sent, results]: results[p] is <<>>, or <<r>> for the
\* outcome r of index_file on p
RECURSIVE Sweep(_, _, _, _)
Sweep(order, files, st, io) ==
    IF order = <<>> THEN st
    ELSE LET p == Head(order)
         IN  With(index_file(files, st.db, st.file_checksums, p, io),
                  LAMBDA r :
                      With([db |-> r.db, file_checksums |-> r.file_checksums,
                            sent |-> st.sent \o r.sent,
                            results |-> [st.results EXCEPT ![p] = <<r>>]],
                           LAMBDA next : Sweep(Tail(order), files, next, io)))

\* a create/modify event handled at time t joins the path's run when it is
\* within debounce_interval of the run's first event, else it starts a run
JoinBurst(b, t) ==
    IF b.n = 0 \/ t - b.first > debounce_interval
    THEN [NoBurst EXCEPT !.first = t, !.n = 1]
    ELSE [b EXCEPT !.n = @ + 1]

\* the sweep has called index_file for the path, with outcome r
PassBurst(b, file, r, io) ==
    [b EXCEPT !.passes = @ + 1,
              !.writes = @ + (IF r.writes > 0 THEN 1 ELSE 0),
              !.indexed = @ + Len(r.sent),
              !.file = file,
              !.changed = file # <<>> /\ ~r.hit,
              !.io = io]

-----------------------------------------------------------------------------
(* The watcher running: the files change, the OS watcher reports each change *)
(* on the channel, and the watcher thread handles a message as soon as it   *)
(* arrives                                                                  *)

\* the contents the files are given while the watcher runs
WatchedContents == {DocPlain, DocDupTag}

WatchedWrite ==
    \E p \in Paths, c \in WatchedContents :
        /\ steps < MaxFsChanges
        /\ fs' = [fs EXCEPT ![p] = <<c>>]
        /\ queue' = Append(queue,
                           FsEvent(IF fs[p] = <<>> THEN "Create" ELSE "Modify", p))
        /\ last' = [NoLast EXCEPT !.op = "write", !.path = p]
        /\ steps' = steps + 1
        /\ UNCHANGED <<app, inflight, channel, tree, engine, reply, rebuild, db, file_checksums, events, debounce_map, now, waited, burst>>

WatchedRemove ==
    \E p \in Paths :
        /\ steps < MaxFsChanges
        /\ fs[p] # <<>>
        /\ fs' = [fs EXCEPT ![p] = <<>>]
        /\ queue' = Append(queue, FsEvent("Remove", p))
        /\ last' = [NoLast EXCEPT !.op = "remove", !.path = p]
        /\ steps' = steps + 1
        /\ UNCHANGED <<app, inflight, channel, tree, engine, reply, rebuild, db, file_checksums, events, debounce_map, now, waited, burst>>

\* recv_timeout returns Ok(Ok(event))
Recv ==
    /\ queue # <<>>
    /\ LET event == Head(queue)
           r == handle_fs_event(event, fs, db, file_checksums, debounce_map, now)
       IN  /\ db' = r.db
           /\ file_checksums' = r.file_checksums
           /\ debounce_map' = r.debounce_map
           /\ events' = events \o r.sent
           /\ burst' = IF /\ event.kind \in {"Create", "Modify"}
                          /\ should_index_file_with_config(fs, event.path)
                       THEN [burst EXCEPT ![event.path] = JoinBurst(@, now)]
                       ELSE burst
           /\ last' = [NoLast EXCEPT !.op = "handle_fs_event", !.path = event.path,
                                     !.id = file_stem(event.path),
                                     !.kind = event.kind, !.writes = r.writes]
    /\ queue' = Tail(queue)
    /\ waited' = 0
    /\ UNCHANGED <<app, inflight, channel, tree, engine, reply, rebuild, fs, now, steps>>

\* a tick passes while the thread waits in recv_timeout
Tick ==
    /\ queue = <<>>
    /\ waited < debounce_interval
    /\ now < MaxTime
    /\ now' = now + 1
    /\ waited' = waited + 1
    /\ UNCHANGED <<app, inflight, channel, tree, engine, reply, rebuild, fs, db, file_checksums, events, last, queue, debounce_map, burst,
                   steps>>

\* recv_timeout returns Err(Timeout): the sweep
Timeout ==
    /\ queue = <<>>
    /\ waited = debounce_interval
    /\ \E order \in Orders(to_process(debounce_map, now)), io \in IndexIo :
          LET st == Sweep(order, fs,
                          [db |-> db, file_checksums |-> file_checksums,
                           sent |-> <<>>, results |-> [p \in AllPaths |-> <<>>]],
                          io)
          IN  /\ db' = st.db
              /\ file_checksums' = st.file_checksums
              /\ events' = events \o st.sent
              /\ debounce_map' =
                     [p \in AllPaths |-> IF st.results[p] # <<>> THEN <<>>
                                      ELSE debounce_map[p]]
              /\ burst' = [p \in AllPaths |->
                             IF st.results[p] # <<>>
                             THEN PassBurst(burst[p], fs[p], st.results[p][1], io)
                             ELSE burst[p]]
              /\ last' = [NoLast EXCEPT !.op = "sweep", !.io = io,
                                        !.writes = Len(order)]
    /\ waited' = 0
    /\ UNCHANGED <<app, inflight, channel, tree, engine, reply, rebuild, fs, queue, now, steps>>

NextWatch == WatchedWrite \/ WatchedRemove \/ Recv \/ Tick \/ Timeout

SpecWatch == Init /\ [][NextWatch]_vars

\* a note file is overwritten with more than max_file_size bytes, or a file
\* that is no note is written
WatchedWriteOther ==
    \E p \in AllPaths :
        /\ steps < MaxFsChanges
        /\ p \in Paths => fs[p] # <<>>
        /\ fs' = [fs EXCEPT ![p] = IF p \in Paths THEN <<DocHuge>> ELSE <<DocPlain>>]
        /\ queue' = Append(queue,
                           FsEvent(IF fs[p] = <<>> THEN "Create" ELSE "Modify", p))
        /\ last' = [NoLast EXCEPT !.op = "write", !.path = p]
        /\ steps' = steps + 1
        /\ UNCHANGED <<app, inflight, channel, tree, engine, reply, rebuild, db, file_checksums, events, debounce_map, now, waited,
                       burst>>

\* the watcher running over files of every kind
NextWatchAll == WatchedWrite \/ WatchedWriteOther \/ Recv \/ Tick \/ Timeout

SpecWatchAll == Init /\ [][NextWatchAll]_vars

-----------------------------------------------------------------------------
(* Claims about the watcher *)

C4_RemoveEventUnindexes ==
    [][(/\ queue # <<>>
        /\ last'.op = "handle_fs_event"
        /\ Head(queue).kind = "Remove"
        /\ fs[Head(queue).path] = <<>>
        /\ Indexed(Head(queue).path))
          => LET p == Head(queue).path
             IN  /\ get_note(db', file_stem(p)) = <<>>
                 /\ file_checksums'[p] = <<>>
                 /\ events' = Append(events, NoteRemoved(p, file_stem(p)))]_vars

-----------------------------------------------------------------------------
(* More claims about the Database *)

\* C11: notes holds at most one row per id; after an upsert_note that
\* returned Ok, of an id stored before or not, get_note(id) is the one note
\* of that id and carries the title and tags passed; get_note of an id that
\* has no row (never stored, or deleted) is None.
C11_OneNotePerId ==
    /\ \A r1, r2 \in db.notes : r1.id = r2.id => r1 = r2
    /\ (last.op = "upsert_note" /\ last.ok) =>
           /\ Cardinality({r \in db.notes : r.id = last.id}) = 1
           /\ get_note(db, last.id) # <<>>
           /\ get_note(db, last.id)[1].title = last.note[1].title
           /\ get_note(db, last.id)[1].metadata.tags = last.note[1].metadata.tags
           /\ get_notes_by_tag(db, "Rust") \cap {r \in db.notes : r.id = last.id} # {}
                  <=> (\E i \in 1..Len(last.note[1].metadata.tags) :
                          last.note[1].metadata.tags[i] = "Rust")
    /\ last.op = "delete_note" => get_note(db, last.id) = <<>>
    /\ \A id \in NoteIds :
           (get_note(db, id) = <<>>) <=> ~(\E r \in db.notes : r.id = id)

\* an upsert_note replaced a stored note by one with another title
C11_Witness ==
    /\ last.op = "upsert_note"
    /\ last.ok
    /\ last.existed
    /\ last.note[1].title = <<"U">>
    /\ Cardinality(db.fts) >= 2

\* C12: delete_note of an id that is not stored returns Ok and leaves the
\* Database as it was; a second delete_note(id) changes nothing the first
\* left.
C12_DeleteIdempotent ==
    /\ [][(last'.op = "delete_note" /\ get_note(db, last'.id) = <<>>) =>
             (last'.ok /\ db' = db)]_vars
    /\ [](\A id \in NoteIds :
             LET once == delete_note(db, id)
             IN  /\ once.ok
                 /\ delete_note(once.db, id) = once)

\* a delete_note of an id deleted before has returned
C12_Witness ==
    /\ last.op = "delete_note"
    /\ ~last.existed
    /\ last.ok
    /\ db.fts # {}

-----------------------------------------------------------------------------
(* Indexer::rebuild_index, a call at a time, while the files change *)

RebuildStarted == [kind |-> "RebuildStarted"]

RebuildCompleted(notes_processed) ==
    [kind |-> "RebuildCompleted", notes_processed |-> notes_processed]

IndexError(path) == [kind |-> "IndexError", path |-> path]

\* Indexer::should_index_file
should_index_file(files, path) == should_index_file_with_config(files, path)

\* the entries WalkDir yields: the files of the directory, in the order the
\* directory lists them
WalkDir(files) == Orders({p \in DOMAIN files : files[p] # <<>>})

AfterFailure_abort(todo) == <<>>

\* the walk after index_file returned Err: the error is reported and the
\* loop goes on with the remaining entries
AfterFailure(todo) == todo

notes_processed_counting_all(n, ok) == n + 1

\* notes_processed after index_file returned: one more on Ok
notes_processed_after(n, ok) == IF ok THEN n + 1 ELSE n

finish_silent(fts_ok, n) == <<>>

\* the events the end of rebuild_index sends: RebuildCompleted when
\* Database::rebuild_index returned Ok, none when `?` returns its error
finish_events(fts_ok, n) == IF fts_ok THEN <<RebuildCompleted(n)>> ELSE <<>>

\* a file is created or overwritten, a note or not
AnyFsWrite ==
    \E p \in AllPaths, c \in WatchedContents :
        /\ steps < MaxRebuildFsChanges
        /\ p \in OtherPaths => c = DocPlain
        /\ fs' = [fs EXCEPT ![p] = <<c>>]
        /\ last' = [NoLast EXCEPT !.op = "write", !.path = p]
        /\ steps' = steps + 1
        /\ UNCHANGED <<app, inflight, channel, tree, engine, reply, rebuild, db, file_checksums, events, queue, debounce_map, now,
                       waited, burst>>

\* a file is deleted
AnyFsRemove ==
    \E p \in AllPaths :
        /\ steps < MaxRebuildFsChanges
        /\ fs[p] # <<>>
        /\ fs' = [fs EXCEPT ![p] = <<>>]
        /\ last' = [NoLast EXCEPT !.op = "remove", !.path = p]
        /\ steps' = steps + 1
        /\ UNCHANGED <<app, inflight, channel, tree, engine, reply, rebuild, db, file_checksums, events, queue, debounce_map, now,
                       waited, burst>>

\* rebuild_index is called: RebuildStarted, the checksums cleared, the walk
\* opened
RebuildStart ==
    /\ rebuild.pc # "walking"
    /\ rebuild.calls < MaxRebuilds
    /\ \E order \in WalkDir(fs) :
          rebuild' = [NoRebuild EXCEPT !.pc = "walking", !.todo = order,
                                       !.calls = rebuild.calls + 1,
                                       !.started = Len(events) + 1,
                                       !.entries = SeqToSet(order),
                                       !.at_steps = steps]
    /\ events' = Append(events, RebuildStarted)
    /\ file_checksums' = [p \in DOMAIN file_checksums |-> <<>>]
    /\ last' = [NoLast EXCEPT !.op = "rebuild_start"]
    /\ UNCHANGED <<app, inflight, channel, tree, engine, reply, fs, db, queue, debounce_map, now, waited, burst, steps>>

\* one turn of the loop over the entries
RebuildVisit ==
    /\ rebuild.pc = "walking"
    /\ rebuild.todo # <<>>
    /\ \E io \in IndexIo :
          LET path == Head(rebuild.todo)
              r == index_file(fs, db, file_checksums, path, io)
          IN  IF ~should_index_file(fs, path)
              THEN /\ rebuild' = [rebuild EXCEPT !.todo = Tail(@),
                                                  !.results[path] = "skipped"]
                   /\ last' = [NoLast EXCEPT !.op = "rebuild_visit", !.path = path,
                                             !.kind = "skipped"]
                   /\ UNCHANGED <<db, file_checksums, events>>
              ELSE /\ db' = r.db
                   /\ file_checksums' = r.file_checksums
                   /\ events' = events \o r.sent
                                 \o (IF r.ok THEN <<>> ELSE <<IndexError(path)>>)
                   /\ rebuild' =
                         [rebuild EXCEPT
                            !.todo = IF r.ok THEN Tail(@) ELSE AfterFailure(Tail(@)),
                            !.notes_processed = notes_processed_after(@, r.ok),
                            !.results[path] = IF r.ok THEN "ok" ELSE "err"]
                   /\ last' = [NoLast EXCEPT !.op = "rebuild_visit", !.path = path,
                                             !.id = file_stem(path), !.ok = r.ok,
                                             !.writes = r.writes, !.hit = r.hit,
                                             !.io = io, !.kind = "indexed"]
    /\ UNCHANGED <<app, inflight, channel, tree, engine, reply, fs, queue, debounce_map, now, waited, burst, steps>>

\* the walk is over: Database::rebuild_index, then RebuildCompleted; or the
\* error of Database::rebuild_index returned
RebuildFinish ==
    /\ rebuild.pc = "walking"
    /\ rebuild.todo = <<>>
    /\ \E fts_ok \in BOOLEAN :
          /\ db' = IF fts_ok THEN rebuild_fts(db) ELSE db
          /\ events' = events \o finish_events(fts_ok, rebuild.notes_processed)
          /\ rebuild' = [rebuild EXCEPT !.pc = IF fts_ok THEN "done" ELSE "failed"]
          /\ last' = [NoLast EXCEPT !.op = "rebuild_finish", !.ok = fts_ok,
                                    !.writes = 1]
    /\ UNCHANGED <<app, inflight, channel, tree, engine, reply, fs, file_checksums, queue, debounce_map, now, waited, burst, steps>>

NextRebuild ==
    AnyFsWrite \/ AnyFsRemove \/ RebuildStart \/ RebuildVisit \/ RebuildFinish

SpecRebuild == Init /\ [][NextRebuild]_vars

\* what a turn of the loop, or the end of the call, may make of rebuild
RebuildSuccessors(rb) ==
    IF rb.todo # <<>>
    THEN {[rb EXCEPT !.todo = IF res = "err" THEN AfterFailure(Tail(@)) ELSE Tail(@),
                     !.notes_processed = IF res = "skipped" THEN @
                                         ELSE notes_processed_after(@, res = "ok"),
                     !.results[Head(rb.todo)] = res] :
             res \in {"skipped", "ok", "err"}}
    ELSE {[rb EXCEPT !.pc = pc] : pc \in {"done", "failed"}}

\* the call in progress takes its next step (RebuildVisit or RebuildFinish)
RebuildRuns == rebuild.pc = "walking" /\ rebuild' \in RebuildSuccessors(rebuild)

\* the task running rebuild_index is scheduled until it returns
SpecRebuildFair == SpecRebuild /\ WF_rebuild(RebuildRuns)

-----------------------------------------------------------------------------
(* Claims about rebuild_index *)

\* the events sent since the RebuildStarted of the current call
SinceStarted == SubSeq(events, rebuild.started + 1, Len(events))

\* the events of the current call are RebuildStarted, then only NoteIndexed
\* and IndexError events, then RebuildCompleted if the call returned Ok
Bracketed ==
    rebuild.pc # "idle" =>
        /\ events[rebuild.started] = RebuildStarted
        /\ \A i \in 1..Len(SinceStarted) :
               \/ SinceStarted[i].kind \in {"NoteIndexed", "IndexError"}
               \/ /\ rebuild.pc = "done"
                  /\ i = Len(SinceStarted)
                  /\ SinceStarted[i] = RebuildCompleted(rebuild.notes_processed)
        /\ rebuild.pc = "done" =>
               /\ SinceStarted # <<>>
               /\ SinceStarted[Len(SinceStarted)].kind = "RebuildCompleted"
        /\ (last.op = "rebuild_finish" /\ last.ok) => rebuild.pc = "done"

\* C13 as stated: every RebuildStarted is eventually followed by the
\* RebuildCompleted of the same call.
C13_StartedThenCompleted ==
    \A k \in 1..MaxRebuilds :
        (rebuild.pc = "walking" /\ rebuild.calls = k)
            ~> (rebuild.pc = "done" /\ rebuild.calls = k)

\* C13: every call of rebuild_index sends RebuildStarted first and then
\* returns: Ok, having sent RebuildCompleted last, after the Database's
\* full-text rebuild, when that rebuild succeeded; or the error of the
\* full-text rebuild, having sent no RebuildCompleted.  The NoteIndexed and
\* IndexError events of the call come after its RebuildStarted and before
\* its RebuildCompleted.
C13_RebuildEventsBracketed ==
    \A k \in 1..MaxRebuilds :
        (rebuild.pc = "walking" /\ rebuild.calls = k)
            ~> (/\ rebuild.pc \in {"done", "failed"}
                /\ rebuild.calls = k
                /\ Bracketed
                /\ rebuild.pc = "failed" =>
                       \A i \in 1..Len(SinceStarted) :
                           SinceStarted[i].kind # "RebuildCompleted")

\* a rebuild that indexed a file and reported another has completed
C13_Witness ==
    /\ rebuild.pc = "done"
    /\ Len(SinceStarted) = 3
    /\ {SinceStarted[1].kind, SinceStarted[2].kind} = {"NoteIndexed", "IndexError"}
    /\ SinceStarted[3] = RebuildCompleted(1)

\* C14: the walk visits every entry whatever index_file returns for the
\* others: a file index_file fails on gets an IndexError event with its
\* path, a file it succeeds on is stored and gets a NoteIndexed event, and
\* the call goes on to the full-text rebuild.
C14_FailuresDoNotAbort ==
    LET visited == {p \in AllPaths : rebuild.results[p] # "none"}
    IN  /\ rebuild.pc = "walking" => visited \cup SeqToSet(rebuild.todo) = rebuild.entries
        /\ rebuild.pc \in {"done", "failed"} => visited = rebuild.entries
        /\ \A p \in AllPaths :
               /\ rebuild.results[p] = "err" =>
                      \E i \in 1..Len(SinceStarted) : SinceStarted[i] = IndexError(p)
               /\ rebuild.results[p] = "ok" =>
                      /\ \E i \in 1..Len(SinceStarted) :
                             SinceStarted[i] = NoteIndexed(p, file_stem(p))
                      /\ get_note(db, file_stem(p)) # <<>>
                      /\ file_checksums[p] # <<>>

\* a file was indexed after index_file had failed on another, and the
\* rebuild completed
C14_Witness ==
    /\ rebuild.pc = "done"
    /\ \E p, q \in Paths :
          /\ rebuild.results[p] = "err"
          /\ rebuild.results[q] = "ok"
          /\ SinceStarted[1] = IndexError(p)
          /\ SinceStarted[2] = NoteIndexed(q, file_stem(q))

\* C15: the count RebuildCompleted carries is the number of entries
\* index_file returned Ok for, each of them a file that satisfied
\* should_index_file and was indexed (a NoteIndexed event each); entries
\* that failed or were skipped are not counted.  When the files did not
\* change during the call and nothing failed, it is the number of files
\* that satisfy should_index_file.
C15_NotesProcessed ==
    LET indexed == {p \in AllPaths : rebuild.results[p] = "ok"}
        sent == {i \in 1..Len(SinceStarted) : SinceStarted[i].kind = "NoteIndexed"}
    IN  /\ rebuild.pc # "idle" =>
               /\ rebuild.notes_processed = Cardinality(indexed)
               /\ rebuild.notes_processed = Cardinality(sent)
        /\ rebuild.pc = "done" =>
               /\ events[Len(events)] = RebuildCompleted(Cardinality(indexed))
               /\ (steps = rebuild.at_steps
                   /\ \A p \in AllPaths : rebuild.results[p] # "err")
                      => Cardinality(indexed) =
                            Cardinality({p \in AllPaths : should_index_file(fs, p)})

\* a rebuild of two note files counted two
C15_Witness ==
    /\ rebuild.pc = "done"
    /\ events[Len(events)] = RebuildCompleted(2)
    /\ \A p \in Paths : rebuild.results[p] = "ok"

\* C16 as stated: what the indexer stores for a path is a file that satisfies
\* should_index_file: a regular file with a note extension, not hidden, not
\* above max_file_size and matching no exclusion pattern.
C16_OnlyIndexableFilesStored ==
    \A r \in db.notes :
        should_index_file_with_config([fs EXCEPT ![r.path] = <<r.content>>], r.path)

-----------------------------------------------------------------------------
(* SearchEngine: text *)

\* char::to_lowercase, for the letters the model's texts hold
LowerChar(c) ==
    CASE c = "R" -> "r" [] c = "T" -> "t" [] c = "U" -> "u" [] OTHER -> c

\* str::to_lowercase
to_lowercase(s) == [i \in 1..Len(s) |-> LowerChar(s[i])]

\* char::is_whitespace
is_whitespace(c) == c \in {" ", "\t", "\n"}

RECURSIVE trim_start(_)
trim_start(s) ==
    IF s # <<>> /\ is_whitespace(Head(s)) THEN trim_start(Tail(s)) ELSE s

RECURSIVE trim_end(_)
trim_end(s) ==
    IF s # <<>> /\ is_whitespace(s[Len(s)])
    THEN trim_end(SubSeq(s, 1, Len(s) - 1))
    ELSE s

trim_nothing(s) == s

\* str::trim
trim(s) == trim_end(trim_start(s))

\* str::strip_prefix of a string that starts with the prefix
strip_prefix(s, p) == SubSeq(s, Len(p) + 1, Len(s))

\* the text of a tag (tags are stored as names in the model)
TagText(t) ==
    CASE t = "rust" -> <<"r", "u", "s", "t">>
      [] t = "Rust" -> <<"R", "u", "s", "t">>
      [] t = "go" -> <<"g", "o">>

\* the markdown text of a block, and of a body: its blocks, a blank line
\* between any two
BlockText(b) ==
    IF b.kind = "heading" THEN <<"#", " ">> \o b.text
    ELSE IF b.kind = "link" THEN <<"[">> \o b.text \o <<"]", "(">> \o b.dest \o <<")">>
    ELSE b.text

RECURSIVE BodyText(_)
BodyText(body) ==
    IF body = <<>> THEN <<>>
    ELSE IF Len(body) = 1 THEN BlockText(body[1])
    ELSE BlockText(body[1]) \o <<"\n", "\n">> \o BodyText(Tail(body))

\* str::lines of a body: the text between the line feeds, less a last line
\* that is empty
lines(body) ==
    LET parts == Split(BodyText(body), <<"\n">>)
    IN  IF parts[Len(parts)] = <<>> THEN SubSeq(parts, 1, Len(parts) - 1)
        ELSE parts

-----------------------------------------------------------------------------
(* SearchEngine: queries *)

tag_prefix == <<"t", "a", "g", ":">>
title_prefix == <<"t", "i", "t", "l", "e", ":">>

\* a SearchCriteria: query_type is the variant, text its String
SearchCriteria(query_type, text, weight) ==
    [query_type |-> query_type, text |-> text, weight |-> weight,
     required |-> TRUE]

\* SearchEngine::parse_query: [ok, error, criteria]
parse_query(config, query) ==
    LET trimmed == trim(query)
        one(c) == [ok |-> TRUE, error |-> "none", criteria |-> <<c>>]
    IN  IF trimmed = <<>>
        THEN [ok |-> FALSE, error |-> "Search", criteria |-> <<>>]
        ELSE IF StartsWith(trimmed, tag_prefix)
        THEN one(SearchCriteria("Tag", trim(strip_prefix(trimmed, tag_prefix)), 1))
        ELSE IF StartsWith(trimmed, title_prefix)
        THEN one(SearchCriteria("Title", trim(strip_prefix(trimmed, title_prefix)),
                                config.title_boost))
        ELSE one(SearchCriteria("FullText", trimmed, 1))

-----------------------------------------------------------------------------
(* SearchEngine: results *)

\* Scores are f32 in the code; the model counts them in thousandths, so that
\* 1.0 is base_score.  (Notes are taken not to be modified in the future:
\* days_old is 0 or more.)
base_score == 1000

\* recency_boost * (1.0 / (days_old + 1.0)) with the default recency_boost,
\* 0.1
recency(days_old) == (base_score \div 10) \div (days_old + 1)

SearchMatch(match_type, content, line_number, start_offset, end_offset, context_before, context_after) ==
    [match_type |-> match_type, content |-> content,
     line_number |-> line_number, start_offset |-> start_offset,
     end_offset |-> end_offset, context_before |-> context_before,
     context_after |-> context_after]

line_number_as_enumerated(index) == index

\* the line_number of the Body match on the line that enumerate() numbers
\* index
line_number_of(index) == index + 1

\* the Body match on line ls[i] (i counts from 1, enumerate() from 0)
BodyMatch(ls, i, query) ==
    LET start_offset == Find(to_lowercase(ls[i]), to_lowercase(query)) - 1
    IN  SearchMatch("Body", ls[i], line_number_of(i - 1), start_offset,
                    start_offset + Len(query),
                    IF i - 1 > 0 THEN ls[i - 1] ELSE <<>>,
                    IF i - 1 < Len(ls) - 1 THEN ls[i + 1] ELSE <<>>)

\* the Body matches on the lines ls
BodyMatches(ls, query) ==
    With(SelectSeq([i \in 1..Len(ls) |-> i],
                   LAMBDA i : Contains(to_lowercase(ls[i]), to_lowercase(query))),
         LAMBDA at : [k \in 1..Len(at) |-> BodyMatch(ls, at[k], query)])

\* the Tag matches on the tags
TagMatches(note_tags, query) ==
    With(SelectSeq(note_tags,
                   LAMBDA t : Contains(to_lowercase(TagText(t)), to_lowercase(query))),
         LAMBDA tags : [k \in 1..Len(tags) |->
                           SearchMatch("Tag", TagText(tags[k]), 0, 0,
                                       Len(TagText(tags[k])), <<>>, <<>>)])

\* SearchEngine::find_matches_in_note
find_matches_in_note(note, query) ==
    (IF Contains(to_lowercase(note.title), to_lowercase(query))
     THEN <<SearchMatch("Title", note.title, 0, 0, Len(note.title), <<>>, <<>>)>>
     ELSE <<>>)
    \o With(lines(note.body), LAMBDA ls : BodyMatches(ls, query))
    \o TagMatches(note.metadata.tags, query)

\* a SearchResult (highlighted_content left out)
SearchResult(note, score, matches) ==
    [note |-> note, score |-> score, matches |-> matches]

\* Vec::truncate
truncate(s, len) == IF Len(s) > len THEN SubSeq(s, 1, len) ELSE s

\* slice::sort_by(|a, b| b.key.partial_cmp(&a.key).unwrap()) on a sequence of
\* [key, value]: descending, and stable
RECURSIVE InsertDescending(_, _)
InsertDescending(x, sorted) ==
    IF sorted = <<>> THEN <<x>>
    ELSE IF Head(sorted).key >= x.key
    THEN <<Head(sorted)>> \o InsertDescending(x, Tail(sorted))
    ELSE <<x>> \o sorted

RECURSIVE SortDescending(_)
SortDescending(s) ==
    IF s = <<>> THEN <<>>
    ELSE With(SortDescending(SubSeq(s, 1, Len(s) - 1)),
              LAMBDA sorted : InsertDescending(s[Len(s)], sorted))

\* the values of a sequence of [key, value]
Values(s) == [k \in 1..Len(s) |-> s[k].value]

\* a set of rows as the sequence that lists them by note id in the given
\* order of the ids
RECURSIVE RowsInOrder(_, _)
RowsInOrder(rows, order) ==
    IF order = <<>> THEN <<>>
    ELSE LET first == {n \in rows : n.id = Head(order)}
         IN  (IF first = {} THEN <<>> ELSE <<CHOOSE n \in first : TRUE>>)
             \o RowsInOrder(rows, Tail(order))

\* the rows search_notes returns, ORDER BY rank LIMIT ?: rank, the engine's
\* relevance, is modelled by `order`
SearchRows(hits, order, limit) ==
    truncate(RowsInOrder({hit[2] : hit \in hits}, order), limit)

\* the rows get_notes_by_tag returns, ORDER BY n.modified_at DESC: the
\* youngest first, notes of the same age as `order` has them
TagRows(rows, order, days) ==
    With(RowsInOrder(rows, order),
         LAMBDA listed :
             Values(SortDescending([k \in 1..Len(listed) |->
                        [key |-> 0 - days[listed[k].id], value |-> listed[k]]])))

\* the score perform_fulltext_search gives a note
FulltextScore(note, config, query, days) ==
    IF Contains(to_lowercase(note.title), to_lowercase(query))
    THEN (base_score + recency(days[note.id])) * config.title_boost
    ELSE base_score + recency(days[note.id])

\* the results of perform_fulltext_search for the rows search_notes returned
FulltextResults(notes, config, query, days) ==
    [k \in 1..Len(notes) |->
        SearchResult(notes[k], FulltextScore(notes[k], config, query, days),
                     find_matches_in_note(notes[k], query))]

\* SearchEngine::perform_fulltext_search: [ok, error, results, db_queries],
\* results being the Vec returned, or the results collected when the call
\* failed
perform_fulltext_search(d, config, query, order, days) ==
    With(search_notes(d, query),
         LAMBDA r :
             IF ~r.ok
             THEN [ok |-> FALSE, error |-> "Database", results |-> <<>>,
                   db_queries |-> 1]
             ELSE [ok |-> TRUE, error |-> "none",
                   results |-> With(SearchRows(r.rows, order, config.max_results),
                                    LAMBDA notes :
                                        FulltextResults(notes, config, query, days)),
                   db_queries |-> 1])

\* the results of search_by_tag for the rows get_notes_by_tag returned
TagResults(notes, tag) ==
    [k \in 1..Len(notes) |->
        SearchResult(notes[k], base_score,
                     <<SearchMatch("Tag", tag, 0, 0, Len(tag), <<>>, <<>>)>>)]

\* SearchEngine::search_by_tag
search_by_tag(d, tag, order, days) ==
    [ok |-> TRUE, error |-> "none",
     results |-> With(TagRows(UNION {get_notes_by_tag(d, t) :
                                        t \in {t \in d.tags : TagText(t) = tag}},
                              order, days),
                      LAMBDA notes : TagResults(notes, tag)),
     db_queries |-> 1]

\* SearchEngine::search_by_title
search_by_title(d, config, title, order, days) ==
    perform_fulltext_search(d, config, title, order, days)

\* the results with the place each has in the Vec
Placed(results) == [k \in 1..Len(results) |-> [at |-> k, result |-> results[k]]]

retain_all(results) == Placed(results)

\* results.retain(|result| seen_ids.insert(result.note.id.clone())): the
\* first result of each note id stays
retain_unseen(results) ==
    SelectSeq(Placed(results),
              LAMBDA x : \A j \in 1..(x.at - 1) : results[j].note.id # x.result.note.id)

\* results.sort_by(|a, b| b.score.partial_cmp(&a.score).unwrap())
sort_by_score(kept) ==
    Values(SortDescending([k \in 1..Len(kept) |->
               [key |-> kept[k].result.score, value |-> kept[k].result]]))

\* SearchEngine::merge_and_rank_results
merge_and_rank_results(config, results) ==
    truncate(With(retain_unseen(results), LAMBDA kept : sort_by_score(kept)),
             config.max_results)

\* the results of one criterion, before its weight is applied
CriterionResults(d, config, criterion, order, days) ==
    CASE criterion.query_type = "FullText" ->
             perform_fulltext_search(d, config, criterion.text, order, days)
      [] criterion.query_type = "Tag" ->
             search_by_tag(d, criterion.text, order, days)
      [] criterion.query_type = "Title" ->
             search_by_title(d, config, criterion.text, order, days)

\* result.score *= criterion.weight, for each result
Weighted(results, weight) ==
    [k \in 1..Len(results) |-> [results[k] EXCEPT !.score = @ * weight]]

\* the loop of execute_search over the criteria: [ok, error, results,
\* db_queries]
RECURSIVE CollectResults(_, _, _, _, _, _)
CollectResults(d, config, criteria, order, days, acc) ==
    IF criteria = <<>> THEN acc
    ELSE With(CriterionResults(d, config, Head(criteria), order, days),
              LAMBDA r :
                  IF ~r.ok
                  THEN [r EXCEPT !.db_queries = @ + acc.db_queries]
                  ELSE CollectResults(d, config, Tail(criteria), order, days,
                           [acc EXCEPT
                               !.results = @ \o Weighted(r.results, Head(criteria).weight),
                               !.db_queries = @ + r.db_queries]))

\* SearchEngine::execute_search: [ok, error, results, db_queries, unmerged]
execute_search(d, config, criteria, order, days) ==
    With(CollectResults(d, config, criteria, order, days,
                        [ok |-> TRUE, error |-> "none", results |-> <<>>,
                         db_queries |-> 0]),
         LAMBDA all :
             [ok |-> all.ok, error |-> all.error,
              results |-> IF all.ok
                          THEN merge_and_rank_results(config, all.results)
                          ELSE <<>>,
              db_queries |-> all.db_queries, unmerged |-> all.results])

\* self.query_history.push(query), the oldest query going when there are
\* more than 100
push_query(query_history, query) ==
    With(Append(query_history, query),
         LAMBDA pushed : IF Len(pushed) > 100 THEN Tail(pushed) ELSE pushed)

\* what search returns: [ok, error, results, db_queries, unmerged]
SearchOutcome(eng, d, query, order, days) ==
    With(parse_query(eng.config, query),
         LAMBDA parsed :
             IF ~parsed.ok
             THEN [ok |-> FALSE, error |-> parsed.error, results |-> <<>>,
                   db_queries |-> 0, unmerged |-> <<>>]
             ELSE execute_search(d, eng.config, parsed.criteria, order, days))

\* SearchEngine::search: the engine after the call and its reply
search(eng, d, query, order, days) ==
    [engine |-> [eng EXCEPT !.query_history = push_query(@, query)],
     reply |-> With(SearchOutcome(eng, d, query, order, days),
                    LAMBDA out :
                        [NoReply EXCEPT !.op = "search", !.query = query,
                                        !.ok = out.ok, !.error = out.error,
                                        !.results = out.results,
                                        !.db_queries = out.db_queries,
                                        !.unmerged = out.unmerged])]

-----------------------------------------------------------------------------
(* SearchEngine: suggestions *)

SearchSuggestion(suggestion, suggestion_type, confidence) ==
    [suggestion |-> suggestion, suggestion_type |-> suggestion_type,
     confidence |-> confidence]

\* the confidence of a tag suggestion, in thousandths: 1.0 for a tag as long
\* as the partial query, else 0.8 less 0.1 for each byte the tag is longer,
\* and 0.1 at least
tag_confidence(tag, partial_query) ==
    LET confidence == IF Len(tag) = Len(partial_query) THEN base_score
                      ELSE (base_score * 8) \div 10
                           - (Len(tag) - Len(partial_query)) * (base_score \div 10)
        floor == base_score \div 10
    IN  IF confidence > floor THEN confidence ELSE floor

\* the confidence of a suggestion from the query history: 0.7
query_confidence == (base_score * 7) \div 10

\* the suggestions of the tags, in the order in which the HashMap of
\* get_tags_with_counts yields them (tag_order)
TagSuggestions(d, partial_query, tag_order) ==
    With(SelectSeq(tag_order,
             LAMBDA t : /\ t \in DOMAIN get_tags_with_counts(d)
                        /\ StartsWith(to_lowercase(TagText(t)),
                                      to_lowercase(partial_query))),
         LAMBDA tags :
             [k \in 1..Len(tags) |->
                 SearchSuggestion(tag_prefix \o TagText(tags[k]), "Tag",
                                  tag_confidence(TagText(tags[k]), partial_query))])

skip_none(query, partial_query) == TRUE

\* the test `query != partial_query` on an entry of the history
skip_same(query, partial_query) == query # partial_query

\* the suggestions of the query history
QuerySuggestions(query_history, partial_query) ==
    With(SelectSeq(query_history,
             LAMBDA q : /\ StartsWith(to_lowercase(q), to_lowercase(partial_query))
                        /\ skip_same(q, partial_query)),
         LAMBDA queries :
             [k \in 1..Len(queries) |->
                 SearchSuggestion(queries[k], "Query", query_confidence)])

\* suggestions.sort_by(|a, b| b.confidence.partial_cmp(&a.confidence).unwrap())
sort_by_confidence(suggestions) ==
    Values(SortDescending([k \in 1..Len(suggestions) |->
               [key |-> suggestions[k].confidence, value |-> suggestions[k]]]))

\* SearchEngine::get_suggestions: the reply
get_suggestions(eng, d, partial_query, tag_order) ==
    IF ~eng.config.enable_suggestions \/ Len(partial_query) < 2
    THEN [NoReply EXCEPT !.op = "get_suggestions", !.query = partial_query]
    ELSE [NoReply EXCEPT
             !.op = "get_suggestions", !.query = partial_query,
             !.suggestions =
                 truncate(With(TagSuggestions(d, partial_query, tag_order)
                               \o QuerySuggestions(eng.query_history, partial_query),
                               LAMBDA suggestions : sort_by_confidence(suggestions)),
                          eng.config.max_suggestions),
             !.db_queries = 1]

-----------------------------------------------------------------------------
(* The SearchEngine over a Database that the Indexer fills *)

\* notes stored before or between the searches
MaxStored == 2

\* calls of SearchEngine::search
MaxSearches == 1

\* the length of the lists merge_and_rank_results is tried on
MaxResults == 2

\* the ages of the stored notes at the time of a search, in days
Days == {0, 1}

\* the notes the Indexer stores: n/a.md with tags, n/b.md of three lines or
\* with a tag
StoredNotes ==
    {parse_note(pA, DocTagged), parse_note(pB, DocLines), parse_note(pB, DocLinks)}

\* the queries the callers pass to search: nothing, blanks, a word between
\* blanks, a tag, and the beginning of a word
SearchQueries ==
    {<<>>, <<" ", "\t">>, <<" ", "u", " ">>, tag_prefix \o <<"r", "u", "s", "t">>,
     <<"r", "u">>}

\* the partial queries the callers pass to get_suggestions
PartialQueries ==
    {<<"r">>, <<"r", "u">>, <<"R", "U">>, <<"r", "u", "s", "t">>}

\* the configurations the engine is constructed with: the default one, and
\* one that keeps a single result and a single suggestion
SearchConfigs ==
    {DefaultSearchConfig,
     [DefaultSearchConfig EXCEPT !.max_results = 1, !.max_suggestions = 1]}

InitSearch ==
    /\ fs = [p \in AllPaths |-> <<>>]
    /\ db = EmptyDb
    /\ file_checksums = [p \in AllPaths |-> <<>>]
    /\ events = <<>>
    /\ last = NoLast
    /\ queue = <<>>
    /\ debounce_map = [p \in AllPaths |-> <<>>]
    /\ now = 0
    /\ waited = 0
    /\ burst = [p \in AllPaths |-> NoBurst]
    /\ rebuild = NoRebuild
    /\ engine \in {NewSearchEngine(config) : config \in SearchConfigs}
    /\ reply = NoReply
    /\ tree = NoTree
    /\ channel = NoChannel
    /\ inflight = NoCalls
    /\ app = NewApp
    /\ steps = 0

\* the Indexer stores a note: Database::upsert_note
StoreNote ==
    \E note \in StoredNotes :
        /\ steps < MaxStored
        /\ db' = upsert_note(db, note, "none").db
        /\ reply' = NoReply
        /\ steps' = steps + 1
        /\ UNCHANGED <<app, inflight, channel, tree, engine, rebuild, fs, file_checksums, events, last,
                       queue, debounce_map, now, waited, burst>>

\* SearchEngine::search
Search ==
    \E query \in SearchQueries, order \in Orders({n.id : n \in db.notes}),
       days \in [{n.id : n \in db.notes} -> Days] :
        /\ Len(engine.query_history) < MaxSearches
        /\ \E r \in {search(engine, db, query, order, days)} :
               /\ engine' = r.engine
               /\ reply' = r.reply
        /\ UNCHANGED <<app, inflight, channel, tree, db, rebuild, fs, file_checksums, events, last, queue,
                       debounce_map, now, waited, burst, steps>>

\* SearchEngine::get_suggestions
Suggest ==
    \E partial_query \in PartialQueries, tag_order \in Orders(db.tags) :
        /\ reply' = get_suggestions(engine, db, partial_query, tag_order)
        /\ UNCHANGED <<app, inflight, channel, tree, engine, db, rebuild, fs, file_checksums, events, last,
                       queue, debounce_map, now, waited, burst, steps>>

\* the result lists merge_and_rank_results may be handed: results of the
\* stored notes with any scores
ResultLists ==
    LET Results == {SearchResult(n, score, <<>>) :
                       n \in db.notes, score \in {base_score, base_score * title_boost}}
    IN  UNION {[1..len -> Results] : len \in 0..MaxResults}

\* SearchEngine::merge_and_rank_results on any list of results (it reads
\* the config only, and is tried on the engine as constructed)
MergeAndRank ==
    \E results \in ResultLists :
        /\ engine.query_history = <<>>
        /\ reply' = [NoReply EXCEPT
                        !.op = "merge_and_rank_results", !.unmerged = results,
                        !.results = merge_and_rank_results(engine.config, results)]
        /\ UNCHANGED <<app, inflight, channel, tree, engine, db, rebuild, fs, file_checksums, events, last,
                       queue, debounce_map, now, waited, burst, steps>>

NextSearch == StoreNote \/ Search \/ Suggest \/ MergeAndRank

SpecSearch == InitSearch /\ [][NextSearch]_vars

-----------------------------------------------------------------------------
(* SearchEngine: the claims *)

\* the query holds no character that is not whitespace
Blank(query) == \A i \in 1..Len(query) : is_whitespace(query[i])

\* C17: search(query) with an empty or whitespace-only query fails with a
\* Search error and returns no results, and no query is made of the
\* Database: no fallback search is run.
C17_BlankQueryFails ==
    (reply.op = "search" /\ Blank(reply.query))
        => /\ ~reply.ok
           /\ reply.error = "Search"
           /\ reply.results = <<>>
           /\ reply.db_queries = 0

\* a search for blanks has failed although a note is stored whose title and
\* body a search would find
C17_Witness ==
    /\ reply.op = "search"
    /\ reply.query = <<" ", "\t">>
    /\ ~reply.ok
    /\ reply.error = "Search"
    /\ search_notes(db, <<"u">>).rows # {}

\* the place of the first result of the note id in the list
FirstOf(results, id) ==
    CHOOSE k \in 1..Len(results) :
        /\ results[k].note.id = id
        /\ \A j \in 1..(k - 1) : results[j].note.id # id

\* C18: the result list that search returns (and that
\* merge_and_rank_results makes of any list) holds no two results of the same
\* note id, each result being the first of its note id in the list that was
\* merged, is ordered by non-increasing score, and has at most max_results
\* entries.
C18_ResultsMergedAndRanked ==
    (reply.op \in {"search", "merge_and_rank_results"} /\ reply.ok)
        => LET results == reply.results
           IN  /\ \A i, j \in 1..Len(results) :
                      results[i].note.id = results[j].note.id => i = j
               /\ \A i \in 1..Len(results) :
                      /\ \E k \in 1..Len(reply.unmerged) :
                             reply.unmerged[k].note.id = results[i].note.id
                      /\ results[i] =
                             reply.unmerged[FirstOf(reply.unmerged, results[i].note.id)]
               /\ \A i \in 1..(Len(results) - 1) :
                      results[i].score >= results[i + 1].score
               /\ Len(results) <= engine.config.max_results

\* a search found two notes, and returned the one the Database listed second
\* first, for its higher score
C18_Witness ==
    /\ reply.op = "search"
    /\ reply.ok
    /\ Len(reply.results) = 2
    /\ reply.results[1].score > reply.results[2].score
    /\ reply.unmerged[1].note.id = reply.results[2].note.id

\* the matches of the results of the last search, each with the body lines
\* of its note
ReportedMatches ==
    IF reply.op = "search" /\ reply.ok
    THEN UNION {{[m |-> r.matches[k], ls |-> lines(r.note.body)] :
                    k \in 1..Len(r.matches)} :
                r \in {reply.results[i] : i \in 1..Len(reply.results)}}
    ELSE {}

\* the text searched for: that of the query's criterion
SearchedText == parse_query(engine.config, reply.query).criteria[1].text

\* match m is the Body match of the i-th line of ls (i counting from 1), and
\* is reported under the given line number: it carries the line, the byte
\* offsets of the first case-insensitive occurrence of the text on it, and
\* the lines before and after it, empty where there is none
BodyMatchOf(m, ls, i, number, text) ==
    /\ m.content = ls[i]
    /\ m.line_number = number
    /\ m.start_offset >= 0
    /\ m.end_offset = m.start_offset + Len(text)
    /\ m.end_offset <= Len(ls[i])
    /\ SubSeq(to_lowercase(ls[i]), m.start_offset + 1, m.end_offset) = to_lowercase(text)
    /\ \A o \in 0..(m.start_offset - 1) :
           SubSeq(to_lowercase(ls[i]), o + 1, o + Len(text)) # to_lowercase(text)
    /\ m.context_before = (IF i > 1 THEN ls[i - 1] ELSE <<>>)
    /\ m.context_after = (IF i < Len(ls) THEN ls[i + 1] ELSE <<>>)

\* Title and Tag matches are reported with line number 0 and start offset 0
TitleAndTagMatchesAtZero ==
    \A x \in ReportedMatches :
        x.m.match_type \in {"Title", "Tag"}
            => x.m.line_number = 0 /\ x.m.start_offset = 0

\* C19 (as claimed): every Body match of a search result carries the 0-based
\* index of the matching line within the note body, the byte offsets of the
\* case-insensitive occurrence on that line, and the lines before and after
\* it as context (empty at the first and last line); Title and Tag matches
\* are reported with line number 0 and start offset 0.
C19_BodyMatchesZeroBased ==
    /\ \A x \in ReportedMatches :
           x.m.match_type = "Body"
               => \E i \in 1..Len(x.ls) : BodyMatchOf(x.m, x.ls, i, i - 1, SearchedText)
    /\ TitleAndTagMatchesAtZero

\* C19 (amended): the same, the line number of a Body match being the
\* 1-based number of the matching line (the first line is line 1).
C19_BodyMatchesOneBased ==
    /\ \A x \in ReportedMatches :
           x.m.match_type = "Body"
               => \E i \in 1..Len(x.ls) : BodyMatchOf(x.m, x.ls, i, i, SearchedText)
    /\ TitleAndTagMatchesAtZero

\* a search has reported Body matches on the first line, on a line between
\* two others, not at its beginning, and on the last line of a note, and a
\* Title and a Tag match
C19_Witness ==
    /\ \E x \in ReportedMatches :
           /\ x.m.match_type = "Body"
           /\ x.m.line_number = 1
           /\ x.m.context_before = <<>>
           /\ x.m.context_after # <<>>
    /\ \E x \in ReportedMatches :
           /\ x.m.match_type = "Body"
           /\ x.m.start_offset > 0
           /\ x.m.context_before # <<>>
           /\ x.m.context_after # <<>>
    /\ \E x \in ReportedMatches :
           /\ x.m.match_type = "Body"
           /\ x.m.line_number = Len(x.ls)
           /\ x.m.context_before # <<>>
           /\ x.m.context_after = <<>>
    /\ \E x \in ReportedMatches : x.m.match_type = "Title"
    /\ \E x \in ReportedMatches : x.m.match_type = "Tag"

\* text s starts with the partial query, whatever the case of the letters
StartsWithNoCase(s, partial_query) ==
    StartsWith(to_lowercase(s), to_lowercase(partial_query))

\* the tags of the Database whose names start with the partial query
TagsStarting(partial_query) ==
    {t \in db.tags : StartsWithNoCase(TagText(t), partial_query)}

\* the places of the query history whose queries start with the partial query
QueriesStarting(partial_query) ==
    {k \in 1..Len(engine.query_history) :
        StartsWithNoCase(engine.query_history[k], partial_query)}

\* the name a suggestion proposes: the tag without its "tag:", or the query
Proposed(s) ==
    IF s.suggestion_type = "Tag" THEN strip_prefix(s.suggestion, tag_prefix)
    ELSE s.suggestion

SuggestionsSorted ==
    \A i \in 1..(Len(reply.suggestions) - 1) :
        reply.suggestions[i].confidence >= reply.suggestions[i + 1].confidence

\* C20 (as claimed): get_suggestions(partial) returns no suggestions when
\* partial has fewer than 2 characters; otherwise it proposes exactly the tag
\* names and the previously searched queries that start with partial, in any
\* case (all of them unless max_suggestions cuts the list), each with a
\* confidence that is highest for a name as long as partial and lower the
\* longer the name, ordered by non-increasing confidence and truncated to
\* max_suggestions.
C20_SuggestionsByPrefix ==
    reply.op = "get_suggestions" =>
        LET partial_query == reply.query
            suggestions == reply.suggestions
            names == {TagText(t) : t \in TagsStarting(partial_query)}
                     \cup {engine.query_history[k] : k \in QueriesStarting(partial_query)}
            proposed == {Proposed(suggestions[i]) : i \in 1..Len(suggestions)}
        IN  IF Len(partial_query) < 2 THEN suggestions = <<>>
            ELSE /\ proposed \subseteq names
                 /\ Len(suggestions) < engine.config.max_suggestions
                        => proposed = names
                 /\ \A i, j \in 1..Len(suggestions) :
                        Len(Proposed(suggestions[i])) < Len(Proposed(suggestions[j]))
                            => suggestions[i].confidence > suggestions[j].confidence
                 /\ SuggestionsSorted
                 /\ Len(suggestions) <= engine.config.max_suggestions

\* the confidence a tag of this name is proposed with, in thousandths
ConfidenceOfTag(name, partial_query) ==
    IF Len(name) = Len(partial_query) THEN 1000
    ELSE IF 800 - 100 * (Len(name) - Len(partial_query)) > 100
    THEN 800 - 100 * (Len(name) - Len(partial_query))
    ELSE 100

\* C20 (amended): get_suggestions(partial) returns no suggestions when
\* suggestions are disabled or partial has fewer than 2 bytes; otherwise the
\* candidates are, as "tag:<name>", each tag name that starts with partial in
\* any case, with confidence 1.0 when it is as long as partial and else 0.8
\* less 0.1 per further byte, but 0.1 at least, and each entry of the query
\* history that starts with partial in any case and is not partial itself,
\* with confidence 0.7; the suggestions are the candidates ordered by
\* non-increasing confidence and truncated to max_suggestions.
C20_Suggestions ==
    reply.op = "get_suggestions" =>
        LET partial_query == reply.query
            suggestions == reply.suggestions
            tags == TagsStarting(partial_query)
            queries == {k \in QueriesStarting(partial_query) :
                           engine.query_history[k] # partial_query}
            OfType(type) == {i \in 1..Len(suggestions) :
                                suggestions[i].suggestion_type = type}
            candidates == Cardinality(tags) + Cardinality(queries)
        IN  IF ~engine.config.enable_suggestions \/ Len(partial_query) < 2
            THEN suggestions = <<>>
            ELSE /\ \A i \in OfType("Tag") :
                        \E t \in tags :
                            /\ suggestions[i].suggestion = tag_prefix \o TagText(t)
                            /\ suggestions[i].confidence * 1000 =
                                   ConfidenceOfTag(TagText(t), partial_query) * base_score
                 /\ \A i, j \in OfType("Tag") :
                        suggestions[i].suggestion = suggestions[j].suggestion => i = j
                 /\ \A i \in OfType("Query") :
                        /\ \E k \in queries :
                               suggestions[i].suggestion = engine.query_history[k]
                        /\ suggestions[i].confidence * 10 = base_score * 7
                 /\ OfType("Tag") \cup OfType("Query") = 1..Len(suggestions)
                 /\ Cardinality(OfType("Query")) <= Cardinality(queries)
                 /\ Len(suggestions) =
                        (IF candidates < engine.config.max_suggestions
                         THEN candidates ELSE engine.config.max_suggestions)
                 /\ Len(suggestions) < candidates
                        => \A i \in 1..Len(suggestions) :
                               /\ \A t \in tags :
                                      ConfidenceOfTag(TagText(t), partial_query) * base_score
                                          <= suggestions[i].confidence * 1000
                                      \/ \E j \in OfType("Tag") :
                                             suggestions[j].suggestion = tag_prefix \o TagText(t)
                               /\ queries # {} /\ OfType("Query") = {}
                                      => suggestions[i].confidence * 10 >= base_score * 7
                 /\ SuggestionsSorted

\* after a search for "ru", get_suggestions("RU") has proposed that query
\* before the tags rust and Rust
C20_Witness ==
    /\ reply.op = "get_suggestions"
    /\ reply.query = <<"R", "U">>
    /\ Len(reply.suggestions) = 3
    /\ reply.suggestions[1].suggestion_type = "Query"
    /\ reply.suggestions[1].suggestion = <<"r", "u">>
    /\ reply.suggestions[2].suggestion_type = "Tag"
    /\ reply.suggestions[3].suggestion_type = "Tag"

-----------------------------------------------------------------------------
(* Storage and the commands, on the directories and files of the mosaic.   *)
(* The mosaic root is the current directory: a path is relative to it.     *)

\* the entries of tree
Dir == [kind |-> "dir", content |-> <<>>, len |-> 0]
File(content, len) == [kind |-> "file", content |-> <<content>>, len |-> len]

\* Path::exists, Path::is_file, Path::is_dir
exists(t, path) == path \in DOMAIN t
is_file(t, path) == path \in DOMAIN t /\ t[path].kind = "file"
is_dir(t, path) == path \in DOMAIN t /\ t[path].kind = "dir"

\* Path::join; <<>> is the current directory
join(dir, name) == IF dir = <<>> THEN name ELSE dir \o <<"/">> \o name

\* Path::parent; <<>> for a path of one component
parent(path) ==
    IF LastIndexOf(path, "/") = 0 THEN <<>>
    ELSE SubSeq(path, 1, LastIndexOf(path, "/") - 1)

\* the path, its parent, the parent of that, ...
RECURSIVE Ancestors(_)
Ancestors(path) ==
    IF path = <<>> THEN {} ELSE {path} \cup Ancestors(parent(path))

\* what a call on the files leaves behind: [ok, error, tree]
Done(t) == [ok |-> TRUE, error |-> "none", tree |-> t]
Err(error, t) == [ok |-> FALSE, error |-> error, tree |-> t]

\* fs::create_dir_all: the directory and the ancestors it lacks
create_dir_all(t, path, error) ==
    IF \E q \in Ancestors(path) : is_file(t, q) THEN Err(error, t)
    ELSE Done([q \in DOMAIN t \cup Ancestors(path) |->
                  IF q \in DOMAIN t THEN t[q] ELSE Dir])

\* fs::write, and File::create with write_all: the file is created, or
\* truncated and written anew, in a directory that exists
write(t, path, content, len, error) ==
    IF (parent(path) # <<>> /\ ~is_dir(t, parent(path))) \/ is_dir(t, path)
    THEN Err(error, t)
    ELSE Done([q \in DOMAIN t \cup {path} |->
                  IF q = path THEN File(content, len) ELSE t[q]])

\* StorageConfig::default: notes_dir ("notes", n for short), attachments_dir
\* ("attachments", at for short) and max_attachment_size (100 MB)
notes_dir == <<"n">>

attachments_dir == <<"a", "t">>

max_attachment_size == 104857600

\* Storage::save_note
save_note(t, note) ==
    With(create_dir_all(t, parent(note.path), "FileOperation"),
         LAMBDA made :
             IF ~made.ok THEN made
             ELSE write(made.tree, note.path, note.content,
                        FileSize(note.content), "FileOperation"))

\* fs::read_to_string: <<>> when the path is no file
read_to_string(t, path) == IF is_file(t, path) THEN t[path].content ELSE <<>>

\* the size test of add_attachment
exceeds_never(len, max) == FALSE

exceeds(len, max) == len > max

\* Storage::add_attachment: [ok, error, tree, attachment]; of the Attachment
\* it returns, the id (made of the clock), the MIME type and the checksum are
\* left out
add_attachment(t, source_path, note_id) ==
    IF ~exists(t, source_path)
    THEN [ok |-> FALSE, error |-> "FileOperation", tree |-> t, attachment |-> <<>>]
    ELSE IF exceeds(t[source_path].len, max_attachment_size)
    THEN [ok |-> FALSE, error |-> "Attachment", tree |-> t, attachment |-> <<>>]
    ELSE
    With(create_dir_all(t, join(attachments_dir, note_id), "FileOperation"),
         LAMBDA made :
             LET dest_path == join(join(attachments_dir, note_id),
                                   file_name(source_path))
             IN  IF ~made.ok \/ ~is_file(made.tree, source_path)
                            \/ is_dir(made.tree, dest_path)
                 THEN [ok |-> FALSE, error |-> "FileOperation",
                       tree |-> made.tree, attachment |-> <<>>]
                 ELSE [ok |-> TRUE, error |-> "none",
                       tree |-> [q \in DOMAIN made.tree \cup {dest_path} |->
                                    IF q = dest_path THEN made.tree[source_path]
                                    ELSE made.tree[q]],
                       attachment |-> <<[filename |-> file_name(source_path),
                                         size |-> t[source_path].len,
                                         path |-> dest_path,
                                         note_ids |-> <<note_id>>]>>])

\* the names init_mosaic gives: dailies/ ("dailies", d for short) and
\* tesela.toml ("tesela.toml", t for short)
dailies_dir == <<"d">>

tesela_toml == <<"t">>

\* the text of tesela.toml, of which only the time of creation varies
config_content(clock) == [created |-> clock]

\* commands::init_mosaic
init_mosaic(t, path, clock) ==
    With(create_dir_all(t, path, "Failed to create directory"),
    LAMBDA root : IF ~root.ok THEN root ELSE
    With(create_dir_all(root.tree, join(path, notes_dir),
                        "Failed to create notes directory"),
    LAMBDA notes : IF ~notes.ok THEN notes ELSE
    With(create_dir_all(notes.tree, join(path, attachments_dir),
                        "Failed to create attachments directory"),
    LAMBDA attachments : IF ~attachments.ok THEN attachments ELSE
    With(create_dir_all(attachments.tree, join(path, dailies_dir),
                        "Failed to create dailies directory"),
    LAMBDA dailies : IF ~dailies.ok THEN dailies ELSE
        write(dailies.tree, join(path, tesela_toml), config_content(clock), 64,
              "Failed to create config file")))))

\* char::is_alphanumeric, for the characters the model's titles hold
is_alphanumeric(c) == c \in {"T", "t", "U", "u", "1"}

\* the file name create_note makes of a title
safe_filename(title) ==
    to_lowercase([i \in 1..Len(title) |->
        IF title[i] = " " THEN "-"
        ELSE IF is_alphanumeric(title[i]) \/ title[i] = "-" THEN title[i]
        ELSE "_"])

md == <<".", "m", "d">>

\* the text create_note writes: front matter with the title, the time and no
\* tags, and an empty outline item
note_content(title, clock) ==
    [fm |-> <<[title |-> <<title>>, tags |-> <<>>]>>,
     body |-> <<Para(<<"-">>)>>, created |-> clock]

\* the path create_note writes to
note_path(title) == join(notes_dir, safe_filename(title) \o md)

\* commands::create_note
create_note(t, title, clock) ==
    IF ~exists(t, tesela_toml) THEN Err("No mosaic found", t)
    ELSE write(t, note_path(title), note_content(title, clock), 64,
               "Failed to create note")

-----------------------------------------------------------------------------
(* Storage and the commands called on one mosaic *)

\* calls of Storage and of the commands, and files put beside the mosaic
MaxStorageSteps == 3

\* a file outside the mosaic, to attach
source_txt == <<"l", ".", "t", "x", "t">>

\* the lengths it may have
SourceSizes == {23, max_attachment_size, max_attachment_size + 1}

\* the Notes handed to save_note: as parse_note made them, or with a body, a
\* title or tags set by the caller
SavedNotes ==
    {parse_note(pA, DocPlain), parse_note(pA, DocTagged),
     [parse_note(pA, DocPlain) EXCEPT !.body = <<Para(<<"w">>)>>],
     [parse_note(pB, DocPlain) EXCEPT !.metadata.tags = <<"go">>],
     [parse_note(pB, DocTagged) EXCEPT !.title = <<"V">>]}

\* the titles handed to create_note: two that make the same file name
Titles == {<<"T", " ", "u">>, <<"t", "-", "u">>, <<"u", "!">>}

\* the clock, in seconds, as the commands may read it
Clocks == {0, 1}

\* a file appears beside the mosaic, or is written anew
PutSource ==
    \E len \in SourceSizes :
        /\ steps < MaxStorageSteps
        /\ tree' = write(tree, source_txt, [bytes |-> len], len, "none").tree
        /\ last' = [NoLast EXCEPT !.op = "put_source", !.path = source_txt]
        /\ steps' = steps + 1
        /\ UNCHANGED <<app, inflight, fs, db, file_checksums, events, queue, debounce_map, now,
                       waited, burst, rebuild, engine, reply, channel>>

SaveNote ==
    \E note \in SavedNotes :
        /\ steps < MaxStorageSteps
        /\ \E r \in {save_note(tree, note)} :
               /\ tree' = r.tree
               /\ last' = [NoLast EXCEPT !.op = "save_note", !.path = note.path,
                                         !.note = <<note>>, !.ok = r.ok,
                                         !.error = r.error]
        /\ steps' = steps + 1
        /\ UNCHANGED <<app, inflight, fs, db, file_checksums, events, queue, debounce_map, now,
                       waited, burst, rebuild, engine, reply, channel>>

\* Storage::load_note on a path notes are saved at
LoadNote ==
    \E p \in Paths :
        /\ steps < MaxStorageSteps
        /\ \E loaded \in {load_note([q \in {p} |-> read_to_string(tree, q)], p)} :
               last' = [NoLast EXCEPT !.op = "load_note", !.path = p,
                                      !.note = loaded, !.ok = (loaded # <<>>),
                                      !.error = IF loaded = <<>>
                                                THEN "FileOperation" ELSE "none"]
        /\ steps' = steps + 1
        /\ UNCHANGED <<app, inflight, channel, tree, fs, db, file_checksums, events, queue, debounce_map,
                       now, waited, burst, rebuild, engine, reply, channel>>

AddAttachment ==
    \E source_path \in {source_txt, pA}, note_id \in {id_a} :
        /\ steps < MaxStorageSteps
        /\ \E r \in {add_attachment(tree, source_path, note_id)} :
               /\ tree' = r.tree
               /\ last' = [NoLast EXCEPT !.op = "add_attachment",
                                         !.path = source_path, !.id = note_id,
                                         !.ok = r.ok, !.error = r.error]
        /\ steps' = steps + 1
        /\ UNCHANGED <<app, inflight, fs, db, file_checksums, events, queue, debounce_map, now,
                       waited, burst, rebuild, engine, reply, channel>>

\* init_mosaic(".")
InitMosaic ==
    \E clock \in Clocks :
        /\ steps < MaxStorageSteps
        /\ \E r \in {init_mosaic(tree, <<>>, clock)} :
               /\ tree' = r.tree
               /\ last' = [NoLast EXCEPT !.op = "init_mosaic", !.ok = r.ok,
                                         !.error = r.error]
        /\ steps' = steps + 1
        /\ UNCHANGED <<app, inflight, fs, db, file_checksums, events, queue, debounce_map, now,
                       waited, burst, rebuild, engine, reply, channel>>

CreateNote ==
    \E title \in Titles, clock \in Clocks :
        /\ steps < MaxStorageSteps
        /\ \E r \in {create_note(tree, title, clock)} :
               /\ tree' = r.tree
               /\ last' = [NoLast EXCEPT !.op = "create_note",
                                         !.path = note_path(title),
                                         !.ok = r.ok, !.error = r.error]
        /\ steps' = steps + 1
        /\ UNCHANGED <<app, inflight, fs, db, file_checksums, events, queue, debounce_map, now,
                       waited, burst, rebuild, engine, reply, channel>>

NextStorage ==
    PutSource \/ SaveNote \/ LoadNote \/ AddAttachment \/ InitMosaic \/ CreateNote

SpecStorage == Init /\ [][NextStorage]_vars

-----------------------------------------------------------------------------
(* Storage and the commands: the claims *)

\* C21: a Note written with save_note and read back from the written file
\* with load_note comes back with the title, the tags and the body it was
\* saved with.
C21_SaveLoadRoundTrip ==
    [][(/\ last.op = "save_note" /\ last.ok
        /\ last'.op = "load_note" /\ last'.path = last.path)
           => /\ last'.note # <<>>
              /\ last'.note[1].title = last.note[1].title
              /\ last'.note[1].metadata.tags = last.note[1].metadata.tags
              /\ last'.note[1].body = last.note[1].body]_vars

\* C22: add_attachment on a source file longer than max_attachment_size
\* returns an Attachment error and leaves every directory and file as it
\* was: neither the destination file nor the directory of the note's
\* attachments is created.
C22_OversizeRejected ==
    [][(/\ last'.op = "add_attachment"
        /\ is_file(tree, last'.path)
        /\ tree[last'.path].len > max_attachment_size)
           => /\ ~last'.ok
              /\ last'.error = "Attachment"
              /\ tree' = tree]_vars

\* add_attachment has rejected l.txt, which is one byte above the ceiling,
\* and the note has no directory of attachments
C22_Witness ==
    /\ last.op = "add_attachment"
    /\ last.path = source_txt
    /\ last.error = "Attachment"
    /\ is_file(tree, source_txt)
    /\ tree[source_txt].len = max_attachment_size + 1
    /\ ~exists(tree, join(attachments_dir, id_a))

\* the path with -k put before its extension
Numbered(path, k) ==
    SubSeq(path, 1, Len(path) - Len(md)) \o <<"-", k>> \o md

\* C26: create_note never overwrites a note: when the file name made of the
\* title exists in notes/ already, the call succeeds, the existing file is
\* left as it was and the new note is written under a numbered name.
C26_CreateNeverOverwrites ==
    [][(/\ last'.op = "create_note"
        /\ exists(tree, tesela_toml)
        /\ is_file(tree, last'.path))
           => /\ last'.ok
              /\ tree'[last'.path] = tree[last'.path]
              /\ is_file(tree', Numbered(last'.path, "1"))]_vars

\* C27: init_mosaic on a directory that holds an initialized mosaic fails
\* with an error that says "already exists" and leaves the mosaic, its
\* tesela.toml included, as it was.
C27_InitTwiceFails ==
    [][(/\ last'.op = "init_mosaic"
        /\ is_file(tree, tesela_toml)
        /\ is_dir(tree, notes_dir))
           => /\ ~last'.ok
              /\ last'.error = "already exists"
              /\ tree' = tree]_vars

-----------------------------------------------------------------------------
(* index_file and remove_from_index on note files that share a file stem *)

\* file changes and calls of the Indexer
MaxSameStemSteps == 4

\* a.md, and beside it a.markdown and a.md of a subdirectory
pAmarkdown == <<"n", "/", "a", ".", "m", "a", "r", "k", "d", "o", "w", "n">>
pSubA == <<"n", "/", "s", "/", "a", ".", "m", "d">>

SameStemPaths == {pA, pAmarkdown, pSubA}

InitSameStem ==
    /\ fs = [p \in SameStemPaths |-> <<>>]
    /\ db = EmptyDb
    /\ file_checksums = [p \in SameStemPaths |-> <<>>]
    /\ events = <<>>
    /\ last = NoLast
    /\ queue = <<>>
    /\ debounce_map = [p \in AllPaths |-> <<>>]
    /\ now = 0
    /\ waited = 0
    /\ burst = [p \in AllPaths |-> NoBurst]
    /\ rebuild = NoRebuild
    /\ engine = NewSearchEngine(DefaultSearchConfig)
    /\ reply = NoReply
    /\ tree = NoTree
    /\ channel = NoChannel
    /\ inflight = NoCalls
    /\ app = NewApp
    /\ steps = 0

\* a note file is created or overwritten
WriteSameStem ==
    \E p \in SameStemPaths, c \in {DocPlain, DocTagged} :
        /\ steps < MaxSameStemSteps
        /\ fs' = [fs EXCEPT ![p] = <<c>>]
        /\ last' = [NoLast EXCEPT !.op = "write", !.path = p]
        /\ steps' = steps + 1
        /\ UNCHANGED <<app, inflight, db, file_checksums, events, queue, debounce_map, now,
                       waited, burst, rebuild, engine, reply, tree, channel>>

\* Indexer::index_file on a file that is there
IndexSameStem ==
    \E p \in SameStemPaths :
        /\ steps < MaxSameStemSteps
        /\ fs[p] # <<>>
        /\ \E r \in {index_file(fs, db, file_checksums, p, "none")} :
               /\ db' = r.db
               /\ file_checksums' = r.file_checksums
               /\ events' = events \o r.sent
               /\ last' = [NoLast EXCEPT !.op = "index_file", !.path = p,
                                         !.id = file_stem(p), !.ok = r.ok,
                                         !.writes = r.writes, !.hit = r.hit]
        /\ steps' = steps + 1
        /\ UNCHANGED <<app, inflight, fs, queue, debounce_map, now, waited, burst, rebuild,
                       engine, reply, tree, channel>>

\* the file is deleted and the watcher calls Indexer::remove_from_index
RemoveSameStem ==
    \E p \in SameStemPaths :
        /\ steps < MaxSameStemSteps
        /\ fs[p] # <<>>
        /\ fs' = [fs EXCEPT ![p] = <<>>]
        /\ \E r \in {remove_from_index(db, file_checksums, p)} :
               /\ db' = r.db
               /\ file_checksums' = r.file_checksums
               /\ events' = events \o r.sent
               /\ last' = [NoLast EXCEPT !.op = "remove_from_index", !.path = p,
                                         !.id = file_stem(p), !.ok = r.ok,
                                         !.writes = r.writes]
        /\ steps' = steps + 1
        /\ UNCHANGED <<app, inflight, queue, debounce_map, now, waited, burst, rebuild, engine,
                       reply, tree, channel>>

NextSameStem == WriteSameStem \/ IndexSameStem \/ RemoveSameStem

SpecSameStem == InitSameStem /\ [][NextSameStem]_vars

\* the note the Database stores for a path: the path with its id, title and
\* content
StoredFor(d, path) ==
    {[path |-> r.path, id |-> r.id, title |-> r.title, content |-> r.content] :
        r \in {n \in d.notes : n.path = path}}

\* C23: note ids are unique within the store: the note files that are there
\* have ids that differ, and a call of index_file or remove_from_index on one
\* path leaves the notes the Database stores for the other paths as they
\* were.
C23_IdsUnique ==
    /\ [](\A p, q \in SameStemPaths :
             (fs[p] # <<>> /\ fs[q] # <<>> /\ p # q)
                 => parse_note(p, fs[p][1]).id # parse_note(q, fs[q][1]).id)
    /\ [][last'.op \in {"index_file", "remove_from_index"}
             => \A p \in SameStemPaths \ {last'.path} :
                    StoredFor(db', p) = StoredFor(db, p)]_vars

-----------------------------------------------------------------------------
(* The broadcast channel of IndexEvents (tokio::sync::broadcast) *)

\* the capacity Indexer::new asks of broadcast::channel
channel_capacity == 1000

\* usize::next_power_of_two
next_power_of_two(n) ==
    CHOOSE p \in {2 ^ k : k \in 0..20} :
        p >= n /\ \A q \in {2 ^ k : k \in 0..20} : q >= n => p <= q

\* the events the channel keeps: broadcast::channel rounds the capacity up
\* to a power of two
slots(capacity) == next_power_of_two(capacity)

\* Sender::send: never waits; with no Receiver the event is dropped (the
\* Indexer ignores the Err), else it takes the place of the oldest event kept
send(ch) == IF ch.rx = <<>> THEN ch ELSE [ch EXCEPT !.tail = @ + 1]

\* Sender::subscribe (Indexer::subscribe_events, and start_watching for the
\* Receiver it returns): the Receiver sees the events sent from now on
subscribe(ch) ==
    [ch EXCEPT !.rx = Append(@, [next |-> ch.tail + 1, subscribed |-> ch.tail,
                                 received |-> <<>>, lagged |-> 0])]

\* the Receiver waits: no event was sent that it has not seen
pending(ch, i) == ch.rx[i].next > ch.tail

\* Receiver::recv when it does not wait: the next event, or, when that event
\* was overwritten, Err(Lagged(n)) and the Receiver moves to the oldest event
\* the channel keeps
recv(ch, i) ==
    IF ch.tail - (ch.rx[i].next - 1) > slots(channel_capacity)
    THEN [ch EXCEPT !.rx[i].lagged =
                        @ + (ch.tail - slots(channel_capacity) + 1) - ch.rx[i].next,
                    !.rx[i].next = ch.tail - slots(channel_capacity) + 1]
    ELSE [ch EXCEPT !.rx[i].received = Append(@, ch.rx[i].next),
                    !.rx[i].next = @ + 1]

-----------------------------------------------------------------------------
(* An Indexer that sends events, and Receivers that take them when they will *)

\* the events sent
MaxEvents == 1026

\* the calls of recv
MaxRecvs == 3

\* the events sent before the last Receiver subscribes
MaxSentBefore == 1

\* the Receivers: of the user interface and of the statistics
Receivers == {1, 2}

\* a caller obtains a Receiver
Subscribe ==
    /\ Len(channel.rx) < Cardinality(Receivers)
    /\ channel.tail <= MaxSentBefore
    /\ channel' = subscribe(channel)
    /\ UNCHANGED <<app, inflight, fs, db, file_checksums, events, last, queue, debounce_map, now,
                   waited, burst, rebuild, engine, reply, tree, steps>>

\* the Indexer sends an event (the events are told apart by their positions)
Emit ==
    /\ channel.tail < MaxEvents
    /\ channel' = send(channel)
    /\ UNCHANGED <<app, inflight, fs, db, file_checksums, events, last, queue, debounce_map, now,
                   waited, burst, rebuild, engine, reply, tree, steps>>

\* a Receiver that has something to take calls recv
Receive ==
    \E i \in 1..Len(channel.rx) :
        /\ steps < MaxRecvs
        /\ ~pending(channel, i)
        /\ channel' = recv(channel, i)
        /\ steps' = steps + 1
        /\ UNCHANGED <<app, inflight, fs, db, file_checksums, events, last, queue, debounce_map,
                       now, waited, burst, rebuild, engine, reply, tree>>

NextEvents == Subscribe \/ Emit \/ Receive

SpecEvents == Init /\ [][NextEvents]_vars

\* C24: every Receiver receives every event sent after it subscribed, in the
\* order they were sent, however late it takes them: what it has received
\* are the events that follow its subscription, none left out.  (Sending
\* never waits: send has no condition under which it does not return.)
C24_EveryEventReceived ==
    \A i \in 1..Len(channel.rx) :
        /\ channel.rx[i].lagged = 0
        /\ channel.rx[i].received =
               [k \in 1..Len(channel.rx[i].received) |->
                   channel.rx[i].subscribed + k]

-----------------------------------------------------------------------------
(* The watcher thread under a stream of messages that need not end.  Time   *)
(* is kept relative here: a tick makes the entries of the debounce map one  *)
(* tick older instead of advancing the clock (the sweep compares only the   *)
(* difference of the two), and an entry the sweep's test already lets       *)
(* through grows no older, so that the watcher can run for ever in a        *)
(* finite model.  The files are written with one content.                   *)

\* the messages that wait in the channel of the OS watcher
MaxQueued == 1

\* the Err(e) the OS watcher sends on the channel
WatchErr == [kind |-> "Error", path |-> <<>>]

\* the debounce map a tick later, seen from a clock that stands at t
Aged(dmap, t) ==
    [p \in DOMAIN dmap |->
        IF dmap[p] = <<>> \/ Expired(dmap[p][1], t) THEN dmap[p]
        ELSE <<dmap[p][1] - 1>>]

\* a note file is created or written again, and the OS watcher reports it
BusyWrite ==
    \E p \in Paths :
        /\ Len(queue) < MaxQueued
        /\ fs' = [fs EXCEPT ![p] = <<DocPlain>>]
        /\ queue' = Append(queue,
                           FsEvent(IF fs[p] = <<>> THEN "Create" ELSE "Modify", p))
        /\ last' = [NoLast EXCEPT !.op = "write", !.path = p]
        /\ UNCHANGED <<app, inflight, db, file_checksums, events, debounce_map, now, waited,
                       burst, rebuild, engine, reply, tree, channel, steps>>

\* the OS watcher reports an error
WatchError ==
    /\ Len(queue) < MaxQueued
    /\ queue' = Append(queue, WatchErr)
    /\ UNCHANGED <<app, inflight, fs, db, file_checksums, events, last, debounce_map, now,
                   waited, burst, rebuild, engine, reply, tree, channel, steps>>

\* recv_timeout returns Ok(Ok(event)): handle_fs_event
BusyRecv ==
    /\ queue # <<>>
    /\ Head(queue) # WatchErr
    /\ \E r \in {handle_fs_event(Head(queue), fs, db, file_checksums,
                                 debounce_map, now)} :
           /\ db' = r.db
           /\ file_checksums' = r.file_checksums
           /\ debounce_map' = r.debounce_map
           /\ events' = events \o r.sent
           /\ last' = [NoLast EXCEPT !.op = "handle_fs_event",
                                     !.path = Head(queue).path,
                                     !.kind = Head(queue).kind]
    /\ queue' = Tail(queue)
    /\ waited' = 0
    /\ UNCHANGED <<app, inflight, fs, now, burst, rebuild, engine, reply, tree, channel, steps>>

\* recv_timeout returns Ok(Err(e)): the error is logged
RecvError ==
    /\ queue # <<>>
    /\ Head(queue) = WatchErr
    /\ queue' = Tail(queue)
    /\ waited' = 0
    /\ last' = [NoLast EXCEPT !.op = "watch_error", !.kind = "Error"]
    /\ UNCHANGED <<app, inflight, fs, db, file_checksums, events, debounce_map, now, burst,
                   rebuild, engine, reply, tree, channel, steps>>

\* a tick passes while the thread waits in recv_timeout
BusyTick ==
    /\ queue = <<>>
    /\ waited < debounce_interval
    /\ debounce_map' = Aged(debounce_map, now)
    /\ waited' = waited + 1
    /\ UNCHANGED <<app, inflight, fs, db, file_checksums, events, last, queue, now, burst,
                   rebuild, engine, reply, tree, channel, steps>>

\* recv_timeout returns Err(Timeout): the sweep
BusyTimeout ==
    /\ queue = <<>>
    /\ waited = debounce_interval
    /\ \E order \in Orders(to_process(debounce_map, now)) :
        \E st \in {Sweep(order, fs,
                         [db |-> db, file_checksums |-> file_checksums,
                          sent |-> <<>>, results |-> [p \in AllPaths |-> <<>>]],
                         "none")} :
              /\ db' = st.db
              /\ file_checksums' = st.file_checksums
              /\ events' = events \o st.sent
              /\ debounce_map' =
                     [p \in AllPaths |-> IF st.results[p] # <<>> THEN <<>>
                                      ELSE debounce_map[p]]
              /\ last' = [NoLast EXCEPT !.op = "sweep", !.writes = Len(order)]
    /\ waited' = 0
    /\ UNCHANGED <<app, inflight, fs, queue, now, burst, rebuild, engine, reply, tree, channel,
                   steps>>

NextWatchBusy ==
    BusyWrite \/ WatchError \/ BusyRecv \/ RecvError \/ BusyTick \/ BusyTimeout

\* the thread runs and time passes, whatever the files and the OS watcher do:
\* in every state the loop has a turn to take (BusyRecv or RecvError on a
\* message, BusyTick or BusyTimeout on none), and it takes it
SpecWatchBusy ==
    /\ Init
    /\ [][NextWatchBusy]_vars
    /\ WF_vars(BusyRecv)
    /\ WF_vars(RecvError)
    /\ WF_vars(BusyTick)
    /\ WF_vars(BusyTimeout)

\* C25: an error of the OS watcher ends the watch session: once the thread
\* has received one, it handles no further event and runs no further sweep.
C25_WatchErrorEndsSession ==
    [](last.op = "watch_error"
          => [](last.op \notin {"handle_fs_event", "sweep"}))

\* C29: a path in the debounce map whose last event is older than the
\* debounce window is eventually taken out of it by the sweep (or a newer
\* event of its own restarts its window), even while file-system events for
\* other paths keep arriving; behaviours in which the OS watcher delivers an
\* error are left aside, the claim being about events.
C29_SweepNotStarved ==
    \/ <>(last.op = "watch_error")
    \/ \A p \in Paths :
           (debounce_map[p] # <<>> /\ Expired(debounce_map[p][1], now))
               ~> (debounce_map[p] = <<>> \/ ~Expired(debounce_map[p][1], now))

-----------------------------------------------------------------------------
(* glob_match and the exclude loop on patterns and paths *)

\* the exclude patterns of IndexerConfig::default and of test_glob_match, and
\* patterns with a literal prefix and suffix around the wildcard
GlobPatterns ==
    {<<"*", ".", "t", "m", "p">>,
     <<"*", ".", "b", "a", "k">>,
     <<".", "g", "i", "t", "/", "*", "*">>,
     <<"*", "*", "/", ".", "D", "S", "_", "S", "t", "o", "r", "e">>,
     <<"*", ".", "m", "d">>,
     <<"*", "*", "/", ".", "g", "i", "t">>,
     <<"*", "*", "/", "*", ".", "t", "m", "p">>,
     <<"a", "*", "a">>,
     <<"n", "/", "*", ".", "m", "d">>,
     <<"n", "/", "*", "*", "/", "a", ".", "m", "d">>,
     <<"a", ".", "m", "d">>}

\* the paths of test_glob_match, and paths of one, two and three segments
GlobTexts ==
    {<<"t", "e", "s", "t", ".", "m", "d">>,
     <<"n", "o", "t", "e", ".", "m", "d">>,
     <<"t", "e", "s", "t", ".", "t", "x", "t">>,
     <<"s", "o", "m", "e", "/", "p", "a", "t", "h", "/", ".", "g", "i", "t">>,
     <<"p", "a", "t", "h", "/", "t", "o", "/", "f", "i", "l", "e", ".", "t", "m", "p">>,
     <<"f", "i", "l", "e", ".", "m", "d">>,
     <<"a">>,
     <<"a", "a">>,
     <<"a", ".", "m", "d">>,
     <<"n", "/", "a", ".", "m", "d">>,
     <<"n", "/", "s", "/", "a", ".", "m", "d">>,
     <<"n", "/", "s", ".", "t", "m", "p">>,
     <<".", "g", "i", "t", "/", "x">>,
     <<"x", ".", "g", "i", "t">>}

\* glob_match(pattern, text) is called
GlobMatch ==
    \E pattern \in GlobPatterns, text \in GlobTexts :
        /\ last' = [NoLast EXCEPT !.op = "glob_match", !.pattern = pattern,
                                  !.path = text,
                                  !.hit = glob_match(pattern, text)]
        /\ UNCHANGED <<app, inflight, channel, tree, engine, reply, fs, db, file_checksums,
                       events, queue, debounce_map, now, waited, burst,
                       rebuild, steps>>

\* the exclude loop of should_index_file_with_config runs on a path: it
\* returns false at the first of the configured patterns that matches
Excluded ==
    \E text \in GlobTexts :
        /\ last' = [NoLast EXCEPT
                       !.op = "exclude", !.path = text,
                       !.hit = \E i \in 1..Len(exclude_patterns) :
                                   glob_match(exclude_patterns[i], text)]
        /\ UNCHANGED <<app, inflight, channel, tree, engine, reply, fs, db, file_checksums,
                       events, queue, debounce_map, now, waited, burst,
                       rebuild, steps>>

NextGlob == GlobMatch \/ Excluded

SpecGlob == Init /\ [][NextGlob]_vars

\* the stated semantics of a pattern: `**/` stands for any number of whole
\* path segments, a closing `**` for any rest, `*` for a run of characters
\* other than the separator, and every other character for itself, each
\* character of the path being matched once
RECURSIVE StatedMatch(_, _)
StatedMatch(pattern, text) ==
    IF pattern = <<>> THEN text = <<>>
    ELSE IF pattern = <<"*", "*">> THEN TRUE
    ELSE IF StartsWith(pattern, <<"*", "*", "/">>)
    THEN \/ StatedMatch(SubSeq(pattern, 4, Len(pattern)), text)
         \/ \E i \in 1..Len(text) :
                /\ text[i] = "/"
                /\ StatedMatch(pattern, SubSeq(text, i + 1, Len(text)))
    ELSE IF Head(pattern) = "*"
    THEN \/ StatedMatch(Tail(pattern), text)
         \/ /\ text # <<>>
            /\ Head(text) # "/"
            /\ StatedMatch(pattern, Tail(text))
    ELSE /\ text # <<>>
         /\ Head(text) = Head(pattern)
         /\ StatedMatch(Tail(pattern), Tail(text))

\* C28: glob_match returns true exactly for the paths the pattern matches in
\* the stated semantics (`*` within one segment, `**` over whole segments,
\* prefix and suffix matched without overlap), and the exclude loop excludes
\* a path iff at least one configured pattern matches it in that semantics.
C28_GlobSemantics ==
    /\ last.op = "glob_match"
           => (last.hit <=> StatedMatch(last.pattern, last.path))
    /\ last.op = "exclude"
           => (last.hit <=> \E i \in 1..Len(exclude_patterns) :
                               StatedMatch(exclude_patterns[i], last.path))

-----------------------------------------------------------------------------
(* index_file when a Database call fails *)

\* what the Database holds of a note: its row, its tags, its outgoing links
RowsOf(d, id) ==
    [note |-> get_note(d, id),
     tags |-> {nt \in d.note_tags : nt.note_id = id},
     links |-> SelectSeq(d.links, LAMBDA l : l.source_note_id = id)]

\* C30: index_file applies upsert_note and update_note_links as one unit:
\* when it returns an error, the note row, the tags and the link rows of the
\* note in the Database and the checksum cached for the path are as they
\* were before the call.
C30_IndexFileOneUnit ==
    [][(last'.op = "index_file" /\ ~last'.ok)
          => /\ RowsOf(db', last'.id) = RowsOf(db, last'.id)
             /\ file_checksums'[last'.path] = file_checksums[last'.path]]_vars

-----------------------------------------------------------------------------
(* Claims about the rows that refer to a note *)

\* C34: in every reachable Database state every note_tags row, every
\* note_attachments row and every link row refers to a note that is in the
\* notes table: after delete_note, after upsert_note replacing a stored id,
\* and after update_note_links called with an id that is not stored.
C34_NoOrphans ==
    LET stored == {r.id : r \in db.notes}
    IN  /\ \A nt \in db.note_tags : nt.note_id \in stored
        /\ \A na \in db.note_attachments : na.note_id \in stored
        /\ \A i \in 1..Len(db.links) : db.links[i].source_note_id \in stored

\* a delete_note of a stored note that had links and tags or attachments,
\* while another note with rows of its own stays stored
C34_Witness ==
    /\ last.op = "delete_note" /\ last.existed /\ last.pre >= 2
    /\ db.notes # {}
    /\ db.links # <<>>

\* C37: upsert_note changes only the note row and the note's tag and
\* attachment associations: the link rows whose source is the note, and so
\* every get_backlinks result, are after the call what they were before it,
\* also when the id was stored and its row is replaced.
C37_UpsertKeepsLinks ==
    [][last'.op = "upsert_note"
          => /\ LinksOf(db', last'.id) = LinksOf(db, last'.id)
             /\ \A t \in NoteIds : get_backlinks(db', t) = get_backlinks(db, t)]_vars

-----------------------------------------------------------------------------
(* Claims about the NoteIndexed event of index_file *)

\* C38: index_file sends NoteIndexed for a note only after upsert_note and
\* update_note_links have both committed and the checksum cache holds the
\* new checksum of the path: at the event the Database has the note row of
\* the file as it is now together with the links of that version.
C38_IndexedAfterCommits ==
    [][(last'.op = "index_file" /\ events' # events)
          => LET p == last'.path
                 note == parse_note(p, fs[p][1])
                 row == get_note(db', note.id)
             IN  /\ events' = Append(events, NoteIndexed(p, note.id))
                 /\ fs[p] # <<>>
                 /\ row # <<>>
                 /\ row[1].checksum = note.checksum
                 /\ row[1].body = note.body
                 /\ LinksOf(db', note.id) = LinkRows(note.id, extract_links(note.body))
                 /\ file_checksums'[p] = <<note.checksum>>]_vars

\* index_file has indexed a changed version of a note that was stored with
\* other links, and sent NoteIndexed for it a second time
C38_Witness ==
    /\ last.op = "index_file" /\ last.ok /\ last.writes = 2
    /\ LinksOf(db, last.id) # <<>>
    /\ Len(SelectSeq(events, LAMBDA e : e = NoteIndexed(last.path, last.id))) >= 2
    /\ events[Len(events)] = NoteIndexed(last.path, last.id)

-----------------------------------------------------------------------------
(* Claims about the Database after rebuild_index *)

\* before rebuild_index is called, index_file has indexed a note file (in an
\* earlier run of the watcher or an earlier rebuild)
IndexedEarlier ==
    \E p \in Paths :
        /\ rebuild.pc = "idle"
        /\ fs[p] # <<>>
        /\ \E r \in {index_file(fs, db, file_checksums, p, "none")} :
               /\ db' = r.db
               /\ file_checksums' = r.file_checksums
               /\ events' = events \o r.sent
               /\ last' = [NoLast EXCEPT !.op = "index_file", !.path = p,
                                         !.id = file_stem(p), !.ok = r.ok,
                                         !.writes = r.writes, !.hit = r.hit]
        /\ UNCHANGED <<app, inflight, channel, tree, engine, reply, rebuild, fs, queue,
                       debounce_map, now, waited, burst, steps>>

NextRebuildStored ==
    \/ AnyFsWrite
    \/ AnyFsRemove
    \/ IndexedEarlier
    \/ RebuildStart
    \/ RebuildVisit
    \/ RebuildFinish

\* rebuild_index called on a Database that holds notes already
SpecRebuildStored == Init /\ [][NextRebuildStored]_vars

\* C39: after rebuild_index has completed with no change to the files since
\* it was called and no failure on any file, the Database holds a note for
\* an id iff a file that should_index_file accepts, with that id, is under
\* the notes root: the notes of files deleted before the call are gone.
C39_RebuildSynchronizes ==
    (/\ rebuild.pc = "done"
     /\ rebuild.at_steps = steps
     /\ \A p \in AllPaths : rebuild.results[p] # "err")
        => \A id \in {file_stem(p) : p \in AllPaths} \cup {r.id : r \in db.notes} :
               get_note(db, id) # <<>>
                   <=> \E p \in AllPaths :
                          should_index_file(fs, p) /\ file_stem(p) = id

-----------------------------------------------------------------------------
(* Claims about the order in which the watcher applies the events of a path *)

\* C32: the watcher applies the events of one path in arrival order: when
\* the thread handles a Remove event of a path, the indexing of the
\* create/modify events that arrived before it has taken effect (none is
\* still waiting in the debounce map), and none is left in the map to make
\* the sweep index the path after the removal without a later event.
C32_ArrivalOrder ==
    [][(last'.op = "handle_fs_event" /\ last'.kind = "Remove")
          => /\ debounce_map[last'.path] = <<>>
             /\ debounce_map'[last'.path] = <<>>]_vars

-----------------------------------------------------------------------------
(* Claims about the checksum cache *)

\* C33: the checksum cache can be derived from the Database: whenever no
\* indexing operation is in progress, every entry path -> c of the cache has
\* a stored note whose id is the one derived from the path and whose checksum
\* is c.
C33_CacheDerivable ==
    \A p \in AllPaths :
        file_checksums[p] # <<>>
            => LET row == get_note(db, file_stem(p))
               IN  /\ row # <<>>
                   /\ row[1].checksum = file_checksums[p][1]

-----------------------------------------------------------------------------
(* index_file called by the watcher thread and by rebuild_index at the same *)
(* time: each call is a sequence of steps, between which the other caller   *)
(* and the file system may act                                              *)

\* file changes and calls of index_file
MaxInterleaveSteps == 4

InterleaveContents == {DocPlain, DocLinks}

\* a note file is created or overwritten
InterleaveWrite ==
    \E c \in InterleaveContents :
        /\ steps < MaxInterleaveSteps
        /\ fs' = [fs EXCEPT ![pA] = <<c>>]
        /\ last' = [NoLast EXCEPT !.op = "write", !.path = pA]
        /\ steps' = steps + 1
        /\ UNCHANGED <<db, file_checksums, events, queue, debounce_map, now,
                       waited, burst, rebuild, engine, reply, tree, channel,
                       inflight, app>>

\* a caller enters index_file: load_note and the checksum test
CallLoad(c) ==
    /\ inflight[c].pc = "idle"
    /\ steps < MaxInterleaveSteps
    /\ \E loaded \in {load_note(fs, pA)} :
          /\ inflight' =
                 IF loaded # <<>> /\ needs_update(file_checksums, pA, loaded[1].checksum)
                 THEN [inflight EXCEPT ![c] = [pc |-> "loaded", path |-> pA,
                                               note |-> loaded]]
                 ELSE inflight
          /\ last' = [NoLast EXCEPT !.op = "load", !.path = pA, !.kind = c,
                                    !.ok = (loaded # <<>>)]
    /\ steps' = steps + 1
    /\ UNCHANGED <<fs, db, file_checksums, events, queue, debounce_map, now,
                   waited, burst, rebuild, engine, reply, tree, channel, app>>

\* database.upsert_note(&note).await
CallUpsert(c) ==
    /\ inflight[c].pc = "loaded"
    /\ \E r \in {upsert_note(db, inflight[c].note[1], "none")} :
          /\ db' = r.db
          /\ inflight' = IF r.ok THEN [inflight EXCEPT ![c].pc = "upserted"]
                         ELSE [inflight EXCEPT ![c] = NoCalls[c]]
          /\ last' = [NoLast EXCEPT !.op = "upsert_note", !.path = pA,
                                    !.kind = c, !.ok = r.ok]
    /\ UNCHANGED <<fs, file_checksums, events, queue, debounce_map, now, waited,
                   burst, rebuild, engine, reply, tree, channel, app, steps>>

\* database.update_note_links(&note.id, &links).await
CallLinks(c) ==
    /\ inflight[c].pc = "upserted"
    /\ \E note \in {inflight[c].note[1]} :
        \E r \in {update_note_links(db, note.id, extract_links(note.body), 0)} :
          /\ db' = r.db
          /\ inflight' = IF r.ok THEN [inflight EXCEPT ![c].pc = "linked"]
                         ELSE [inflight EXCEPT ![c] = NoCalls[c]]
          /\ last' = [NoLast EXCEPT !.op = "update_note_links", !.path = pA,
                                    !.kind = c, !.ok = r.ok]
    /\ UNCHANGED <<fs, file_checksums, events, queue, debounce_map, now, waited,
                   burst, rebuild, engine, reply, tree, channel, app, steps>>

\* the checksum is cached, NoteIndexed is sent and index_file returns
CallReturn(c) ==
    /\ inflight[c].pc = "linked"
    /\ \E note \in {inflight[c].note[1]} :
          /\ file_checksums' = [file_checksums EXCEPT ![pA] = <<note.checksum>>]
          /\ events' = Append(events, NoteIndexed(pA, note.id))
    /\ inflight' = [inflight EXCEPT ![c] = NoCalls[c]]
    /\ last' = [NoLast EXCEPT !.op = "index_file", !.path = pA, !.kind = c,
                              !.id = file_stem(pA)]
    /\ UNCHANGED <<fs, db, queue, debounce_map, now, waited, burst, rebuild,
                   engine, reply, tree, channel, app, steps>>

WatcherCall ==
    \/ CallLoad("watcher")
    \/ CallUpsert("watcher")
    \/ CallLinks("watcher")
    \/ CallReturn("watcher")

RebuildCall ==
    \/ CallLoad("rebuild")
    \/ CallUpsert("rebuild")
    \/ CallLinks("rebuild")
    \/ CallReturn("rebuild")

NextInterleave == InterleaveWrite \/ WatcherCall \/ RebuildCall

SpecInterleave == Init /\ [][NextInterleave]_vars

\* C31: the Database writes of the watcher thread and of a rebuild_index
\* running at the same time do not interleave on a note: when both have
\* finished, the stored note row and the note's link rows stem from the same
\* version of the file.
C31_WritesSerialized ==
    (\A c \in Callers : inflight[c].pc = "idle")
        => \A r \in db.notes :
               LinksOf(db, r.id) = LinkRows(r.id, extract_links(r.body))

-----------------------------------------------------------------------------
(* The terminal interface: strings and their byte positions *)

\* A text is a sequence of chars; "ae" stands for a char that takes two bytes
\* in UTF-8 (such as a-umlaut), every other char of the model takes one.
len_utf8(c) == IF c = "ae" THEN 2 ELSE 1

\* str::len: the length in bytes
RECURSIVE len(_)
len(s) == IF s = <<>> THEN 0 ELSE len_utf8(Head(s)) + len(Tail(s))

\* the byte position at which the i-th char starts
offset(s, i) == len(SubSeq(s, 1, i - 1))

\* str::is_char_boundary
is_char_boundary(s, idx) ==
    idx = len(s) \/ \E i \in 1..Len(s) : offset(s, i) = idx

\* the chars that start before byte position idx
chars_before(s, idx) == Cardinality({i \in 1..Len(s) : offset(s, i) < idx})

\* String::insert(idx, ch): <<>> when it panics (idx is no char boundary)
insert(s, idx, ch) ==
    IF ~is_char_boundary(s, idx) THEN <<>>
    ELSE LET n == chars_before(s, idx)
         IN  <<SubSeq(s, 1, n) \o <<ch>> \o SubSeq(s, n + 1, Len(s))>>

\* String::remove(idx): <<>> when it panics (idx is at or past the end, or
\* no char boundary)
remove(s, idx) ==
    IF idx >= len(s) \/ ~is_char_boundary(s, idx) THEN <<>>
    ELSE LET n == chars_before(s, idx)
         IN  <<SubSeq(s, 1, n) \o SubSeq(s, n + 2, Len(s))>>

saturating_sub_nothing(a, b) == a

\* usize::saturating_sub
saturating_sub(a, b) == IF a > b THEN a - b ELSE 0

-----------------------------------------------------------------------------
(* The terminal interface: App::handle_key and its handlers *)

\* the longest text the model types
MaxText == 2

\* the chars the model types: keys of the main menu, j and k, and a char of
\* two bytes
KeyChars == {"n", "e", "s", "l", "j", "k", "ae"}

OtherKeys ==
    {"Esc", "Enter", "Backspace", "Left", "Right", "Up", "Down", "Tab",
     "PageDown"}

\* the notes directory as the handlers find it: no note, or three notes
\* (name and content), listed in the order of the bytes of their names
NoteFiles ==
    <<[name |-> <<"n", "s">>, content |-> <<"s", "n">>],
      [name |-> <<"n", "ae">>, content |-> <<"s", "ae">>],
      [name |-> <<"s", "n">>, content |-> <<"l">>]>>

NoteDirs == {<<>>, NoteFiles}

\* Iterator::take
take(s, n) == IF Len(s) <= n THEN s ELSE SubSeq(s, 1, n)

\* the number of names update_suggestions takes
suggestions_taken == 5

\* App::update_suggestions of the input types NewNote and EditNote: the names
\* that contain the input, case-insensitively, at most five of them, sorted
\* (the model lists no more than five names and lists them sorted)
update_suggestions(a, notes) ==
    IF a.input = <<>>
    THEN [a EXCEPT !.suggestions = <<>>, !.suggestion_index = <<>>]
    ELSE LET names == [i \in 1..Len(notes) |-> notes[i].name]
             matches ==
                 take(SelectSeq(names,
                                LAMBDA name : Contains(to_lowercase(name),
                                                       to_lowercase(a.input))),
                      suggestions_taken)
         IN  [a EXCEPT !.suggestions = matches,
                       !.suggestion_index =
                           IF matches # <<>> THEN <<0>> ELSE @]

\* App::handle_tab_completion
handle_tab_completion(a) ==
    IF a.suggestions = <<>> \/ a.suggestion_index = <<>> THEN a
    ELSE LET next_index == (a.suggestion_index[1] + 1) % Len(a.suggestions)
         IN  [a EXCEPT !.suggestion_index = <<next_index>>,
                       !.input = a.suggestions[next_index + 1],
                       !.cursor_position = len(a.suggestions[next_index + 1])]

\* App::search_notes: nothing for a blank query, else the notes whose content
\* contains the query, case-insensitively
App_search_notes(query, notes) ==
    IF trim(query) = <<>> THEN <<>>
    ELSE SelectSeq(notes,
                   LAMBDA n : Contains(to_lowercase(n.content),
                                       to_lowercase(query)))

\* App::start_input
start_input(input_type, notes) ==
    update_suggestions([NewApp EXCEPT !.mode = "Input",
                                      !.input_type = input_type], notes)

\* App::start_search
start_search == [NewApp EXCEPT !.mode = "Search"]

\* App::list_notes: one placeholder item when there is no note
list_notes(notes, io) ==
    IF io = "err" THEN [NewApp EXCEPT !.mode = "Message"]
    ELSE [NewApp EXCEPT !.mode = "Listing",
                        !.items = IF notes = <<>> THEN <<"No notes found">>
                                  ELSE [i \in 1..Len(notes) |-> notes[i].name]]

\* the editor was opened (MainMenu) or could not be (show_error)
Opened(io) == [NewApp EXCEPT !.mode = IF io = "err" THEN "Message" ELSE "MainMenu"]

\* App::handle_main_menu
handle_main_menu(a, key, notes, io) ==
    CASE key \in {"q", "Esc"} -> [a EXCEPT !.should_quit = TRUE]
      [] key = "n" -> start_input("NewNote", notes)
      [] key = "e" -> start_input("EditNote", notes)
      [] key = "s" -> start_search
      [] key = "l" -> list_notes(notes, io)
      [] key = "d" -> Opened(io)
      [] OTHER -> a

\* App::execute_input
execute_input(a, io) ==
    IF trim(a.input) = <<>> THEN NewApp
    ELSE IF a.input_type = "NewNote" THEN [NewApp EXCEPT !.mode = "Message"]
    ELSE Opened(io)

Panicked(a) == [a EXCEPT !.panicked = TRUE]

\* App::handle_input
handle_input(a, key, notes, io) ==
    CASE key = "Esc" -> NewApp
      [] key = "Enter" -> execute_input(a, io)
      [] key = "Backspace" ->
            IF a.cursor_position > 0
            THEN LET removed == remove(a.input, a.cursor_position - 1)
                 IN  IF removed = <<>> THEN Panicked(a)
                     ELSE update_suggestions(
                              [a EXCEPT !.input = removed[1],
                                        !.cursor_position = @ - 1], notes)
            ELSE a
      [] key = "Left" ->
            IF a.cursor_position > 0
            THEN [a EXCEPT !.cursor_position = @ - 1] ELSE a
      [] key = "Right" ->
            IF a.cursor_position < len(a.input)
            THEN [a EXCEPT !.cursor_position = @ + 1] ELSE a
      [] key = "Tab" -> handle_tab_completion(a)
      [] key \in KeyChars ->
            LET inserted == insert(a.input, a.cursor_position, key)
            IN  IF inserted = <<>> THEN Panicked(a)
                ELSE update_suggestions(
                         [a EXCEPT !.input = inserted[1],
                                   !.cursor_position = @ + 1], notes)
      [] OTHER -> a

\* App::handle_listing (the preview is not modelled); execute_list_selection
\* does nothing when items has no item at selected
handle_listing(a, key, io) ==
    CASE key = "Esc" -> NewApp
      [] key = "Enter" ->
            IF a.selected < Len(a.items) THEN Opened(io) ELSE a
      [] key \in {"Up", "k"} ->
            IF a.selected > 0 THEN [a EXCEPT !.selected = @ - 1] ELSE a
      [] key \in {"Down", "j"} ->
            IF a.selected < saturating_sub(Len(a.items), 1)
            THEN [a EXCEPT !.selected = @ + 1] ELSE a
      [] OTHER -> a

\* App::handle_search; results[selected_result] panics out of bounds
handle_search(a, key, notes, io) ==
    CASE key = "Esc" -> NewApp
      [] key = "Enter" ->
            IF a.results = <<>> THEN a
            ELSE IF a.selected_result >= Len(a.results) THEN Panicked(a)
            ELSE Opened(io)
      [] key = "Backspace" ->
            IF a.cursor_position > 0
            THEN LET removed == remove(a.query, a.cursor_position - 1)
                 IN  IF removed = <<>> THEN Panicked(a)
                     ELSE [a EXCEPT !.query = removed[1],
                                    !.cursor_position = @ - 1,
                                    !.results = App_search_notes(removed[1], notes),
                                    !.selected_result = 0]
            ELSE a
      [] key = "Left" ->
            IF a.cursor_position > 0
            THEN [a EXCEPT !.cursor_position = @ - 1] ELSE a
      [] key = "Right" ->
            IF a.cursor_position < len(a.query)
            THEN [a EXCEPT !.cursor_position = @ + 1] ELSE a
      [] key \in {"Up", "k"} ->
            IF a.selected_result > 0
            THEN [a EXCEPT !.selected_result = @ - 1] ELSE a
      [] key \in {"Down", "j"} ->
            IF a.selected_result < saturating_sub(Len(a.results), 1)
            THEN [a EXCEPT !.selected_result = @ + 1] ELSE a
      [] key \in KeyChars ->
            LET inserted == insert(a.query, a.cursor_position, key)
            IN  IF inserted = <<>> THEN Panicked(a)
                ELSE [a EXCEPT !.query = inserted[1],
                               !.cursor_position = @ + 1,
                               !.results = App_search_notes(inserted[1], notes),
                               !.selected_result = 0]
      [] OTHER -> a

\* App::handle_key
handle_key(a, key, notes, io) ==
    CASE a.mode = "MainMenu" -> handle_main_menu(a, key, notes, io)
      [] a.mode = "Input" -> handle_input(a, key, notes, io)
      [] a.mode = "Listing" -> handle_listing(a, key, io)
      [] a.mode = "Search" -> handle_search(a, key, notes, io)
      [] a.mode = "Message" -> NewApp

\* the text of the mode the App is in
TextOf(a) == IF a.mode = "Search" THEN a.query ELSE a.input

\* App::run reads a key and hands it to handle_key, until should_quit; a panic
\* ends the program.  The model types no text longer than MaxText.
KeyPress(key) ==
    /\ ~app.should_quit /\ ~app.panicked
    /\ (key \in KeyChars /\ app.mode \in {"Input", "Search"}
            /\ ~(app.mode = "Search" /\ key \in {"j", "k"}))
           => Len(TextOf(app)) < MaxText
    /\ \E notes \in NoteDirs, io \in {"ok", "err"} :
           app' = handle_key(app, key, notes, io)
    /\ last' = [NoLast EXCEPT !.op = "handle_key", !.kind = key]
    /\ UNCHANGED <<inflight, db, fs, file_checksums, events, debounce_map,
                   now, waited, queue, rebuild, burst, engine, reply, tree,
                   channel, steps>>

CharKey == \E key \in KeyChars : KeyPress(key)

OtherKey == \E key \in OtherKeys : KeyPress(key)

\* the program is started again
Restart ==
    /\ app.should_quit \/ app.panicked
    /\ app' = NewApp
    /\ last' = [NoLast EXCEPT !.op = "App::new"]
    /\ UNCHANGED <<inflight, db, fs, file_checksums, events, debounce_map,
                   now, waited, queue, rebuild, burst, engine, reply, tree,
                   channel, steps>>

\* App::run returns from Message mode to the main menu after three seconds
MessageExpired ==
    /\ ~app.should_quit /\ ~app.panicked
    /\ app.mode = "Message"
    /\ app' = NewApp
    /\ last' = [NoLast EXCEPT !.op = "message_expired"]
    /\ UNCHANGED <<inflight, db, fs, file_checksums, events, debounce_map,
                   now, waited, queue, rebuild, burst, engine, reply, tree,
                   channel, steps>>

NextTui == CharKey \/ OtherKey \/ MessageExpired \/ Restart

SpecTui == Init /\ [][NextTui]_vars

-----------------------------------------------------------------------------
(* The terminal interface: the selection of a list *)

\* index is an index of list, or 0 when list is empty
ValidSelection(index, list) ==
    IF list = <<>> THEN index = 0 ELSE index < Len(list)

\* the selection and the list of the mode, <<index, list>>
Selection(a) ==
    IF a.mode = "Search" THEN <<a.selected_result, a.results>>
    ELSE <<a.selected, a.items>>

\* a key handled in Listing or Search mode that leaves the App in that mode
ListKey(keys) ==
    /\ app.mode \in {"Listing", "Search"}
    /\ app'.mode = app.mode
    /\ last'.op = "handle_key"
    /\ last'.kind \in keys

\* C35: in Listing and Search modes the selected index is an index into
\* the list of items or results, or 0 when the list is empty, after any
\* sequence of key presses; Up/k on the first item and Down/j on the last
\* item leave the selection unchanged, and a change of the search results
\* resets the selection to 0.
C35_SelectionValid ==
    /\ [](app.mode \in {"Listing", "Search"}
              => ValidSelection(Selection(app)[1], Selection(app)[2]))
    /\ [][/\ (ListKey({"Up", "k"}) /\ Selection(app)[1] = 0)
                 => Selection(app')[1] = 0
          /\ (ListKey({"Down", "j"})
                 /\ Selection(app)[1] + 1 = Len(Selection(app)[2]))
                 => Selection(app')[1] = Selection(app)[1]
          /\ (ListKey(KeyChars \cup OtherKeys) /\ app.mode = "Search"
                 /\ app'.results # app.results)
                 => app'.selected_result = 0]_vars

\* Down/j was pressed and the last of two or more results is selected
C35_Witness ==
    /\ app.mode = "Search"
    /\ last.op = "handle_key"
    /\ last.kind = "j"
    /\ Len(app.results) >= 2
    /\ app.selected_result = Len(app.results) - 1
    /\ ~app.panicked

-----------------------------------------------------------------------------
(* The terminal interface: Tab completion *)

\* C36: in Input mode with a non-empty suggestion list, the first Tab
\* selects the first suggestion, each further Tab the next one, and Tab on
\* the last suggestion the first one again; each Tab replaces the input with
\* the selected suggestion and puts the cursor at its end.  (A Tab is the
\* first one when the key before it was not a Tab.)
C36_TabCycles ==
    [][(/\ last'.op = "handle_key"
        /\ last'.kind = "Tab"
        /\ app.mode = "Input"
        /\ app.suggestions # <<>>)
          => LET first == ~(last.op = "handle_key" /\ last.kind = "Tab")
                 selected ==
                     IF first \/ app.suggestion_index = <<>> THEN 0
                     ELSE (app.suggestion_index[1] + 1) % Len(app.suggestions)
             IN  /\ app'.suggestion_index = <<selected>>
                 /\ app'.input = app.suggestions[selected + 1]
                 /\ app'.cursor_position = len(app.suggestions[selected + 1])]_vars

-----------------------------------------------------------------------------
(* The terminal interface: the cursor *)

\* C40: in Input and Search modes, after any sequence of key presses (chars,
\* chars of several bytes among them, Left, Right, Backspace, Tab),
\* cursor_position is between 0 and the length of the text in bytes and is
\* on a char boundary, so that inserting or removing a char at the cursor
\* never panics.
C40_CursorOnBoundary ==
    /\ ~app.panicked
    /\ app.mode \in {"Input", "Search"}
           => /\ app.cursor_position >= 0
              /\ app.cursor_position <= len(TextOf(app))
              /\ is_char_boundary(TextOf(app), app.cursor_position)

=============================================================================
